---------------------------- MODULE Spec2Model ----------------------------
(***************************************************************************)
(* A model of the Haystack scalar data types (haystackapi/datatypes.py,    *)
(* hszinc/datatypes.py) and of the CSV cell parser                         *)
(* (haystackapi/csvparser.py).                                             *)
(*                                                                         *)
(* Python values are records with a field cls naming their class.  Text is *)
(* a sequence of one-character strings, so that indexing, slicing and the  *)
(* code-point order of str are computed and not assumed.  The outcome of   *)
(* an expression is either a value or Raised(exc): the exception that      *)
(* escaped.  The results of the comparison operators are the strings       *)
(* "True", "False", "NotImplemented" or the name of the exception raised.  *)
(***************************************************************************)
EXTENDS Integers, Sequences, FiniteSets, TLC

VARIABLES
    objs,     \* objs[i]: the object bound to operand i (NoObj: unbound)
    nextOid,  \* identity of the next instance created by a class call
    call,     \* the last recorded call: its function, arguments and outcome
    MODE_PINT,       \* datatypes.MODE_PINT
    PINT_AVAILABLE,  \* whether the pint package could be imported
    lastUsePint,     \* the argument of the last use_pint call that returned
    request,         \* the HTTP request being handled and its operation
    pc,              \* the position of the handler of the request
    providerCalls,   \* the calls the handler made to the provider
    result,          \* the grid of the try block, or the exception raised
    response         \* what the handler returned

pintVars == <<MODE_PINT, PINT_AVAILABLE, lastUsePint>>

httpVars == <<request, pc, providerCalls, result, response>>

vars == <<objs, nextOid, call, pintVars, httpVars>>

\* The two operands of a binary comparison.
Slots == {1, 2}

NoObj == [cls |-> "<unbound>"]

Raised(exc) == [cls |-> "<raised>", exc |-> exc]

NoCall == [fn |-> "<none>"]

IsValue(v) == v.cls \notin {"<unbound>", "<raised>"}

Range(s) == {s[k] : k \in 1..Len(s)}

SeqsUpTo(S, n) == UNION {[1..k -> S] : k \in 0..n}

--------------------------------------------------------------------------
(* Bounds of the model.                                                    *)

MaxStrLen == 2
MaxNameLen == 2
MaxInstances == 5
MaxCellLen == 3
MaxValue == 1
MaxEncodedLen == 4
MaxTextLen == 5
MaxRows == 1
MaxAcceptEntries == 2

MaxVersion == 2

MaxParseCalls == 2

--------------------------------------------------------------------------
(* Built-in Python values.                                                 *)

PyNone == [cls |-> "NoneType"]

Str(s) == [cls |-> "str", s |-> s]

PyInt(n) == [cls |-> "int", v |-> n]

PyBoolean(b) == [cls |-> "bool", v |-> b]

\* float('nan'), the only float of the model: every comparison with it is
\* false, except !=.
NaN == [cls |-> "float"]

\* The classes a class inherits from (its MRO without itself and object).
Bases(cls) ==
    CASE cls = "Uri" -> {"str"}
      [] cls = "Bin" -> {"str"}
      [] cls = "BasicQuantity" -> {"Qty"}
      [] cls = "MarkerType" -> {"Singleton"}
      [] cls = "NAType" -> {"Singleton"}
      [] cls = "RemoveType" -> {"Singleton"}
      [] OTHER -> {}

IsInstance(v, cls) == v.cls = cls \/ cls \in Bases(v.cls)

IsNumber(v) == v.cls \in {"int", "float"}

\* Code points of the characters the model uses.
Ord(c) ==
    CASE c = "\n" -> 10
      [] c = " " -> 32
      [] c = "!" -> 33
      [] c = "\"" -> 34
      [] c = "," -> 44
      [] c = "-" -> 45
      [] c = "1" -> 49
      [] c = "@" -> 64
      [] c = "F" -> 70
      [] c = "M" -> 77
      [] c = "N" -> 78
      [] c = "T" -> 84
      [] c = "a" -> 97
      [] c = "b" -> 98
      [] c = "e" -> 101
      [] c = "f" -> 102
      [] c = "l" -> 108
      [] c = "r" -> 114
      [] c = "s" -> 115
      [] c = "t" -> 116
      [] c = "u" -> 117
      [] c = "x" -> 120
      [] c = "~" -> 126
      [] c = "CHECK" -> 10003   \* the one character U+2713

\* str.__lt__ and friends: lexicographic order by code point.
RECURSIVE StrLess(_, _)
StrLess(s, t) ==
    IF t = <<>> THEN FALSE
    ELSE IF s = <<>> THEN TRUE
    ELSE IF Ord(Head(s)) # Ord(Head(t)) THEN Ord(Head(s)) < Ord(Head(t))
    ELSE StrLess(Tail(s), Tail(t))

PyBool(b) == IF b THEN "True" ELSE "False"

\* The six rich comparisons of str with another object.
str__cmp__(op, self, other) ==
    IF ~IsInstance(other, "str") THEN "NotImplemented"
    ELSE CASE op = "==" -> PyBool(self.s = other.s)
           [] op = "!=" -> PyBool(self.s # other.s)
           [] op = "<" -> PyBool(StrLess(self.s, other.s))
           [] op = "<=" -> PyBool(~StrLess(other.s, self.s))
           [] op = ">" -> PyBool(StrLess(other.s, self.s))
           [] op = ">=" -> PyBool(~StrLess(self.s, other.s))

\* The comparison of two built-in numbers (int, float).
NumCmp(op, x, y) ==
    IF x.cls = "float" \/ y.cls = "float" THEN PyBool(op = "!=")
    ELSE CASE op = "==" -> PyBool(x.v = y.v)
           [] op = "!=" -> PyBool(x.v # y.v)
           [] op = "<" -> PyBool(x.v < y.v)
           [] op = "<=" -> PyBool(x.v <= y.v)
           [] op = ">" -> PyBool(x.v > y.v)
           [] op = ">=" -> PyBool(x.v >= y.v)

\* operator(x, y) of a built-in number x with any object y, as the lambdas of
\* Qty evaluate it: a non-number is unequal to x and cannot be ordered with it.
ValueCmp(op, x, y) ==
    IF IsNumber(y) THEN NumCmp(op, x, y)
    ELSE CASE op = "==" -> "False"
           [] op = "!=" -> "True"
           [] OTHER -> IF y.cls = "Ref" THEN "AttributeError" ELSE "TypeError"

--------------------------------------------------------------------------
(* Uri and Bin (haystackapi/datatypes.py).                                 *)

Uri(s) == [cls |-> "Uri", s |-> s]

Bin(s) == [cls |-> "Bin", s |-> s]

Uri__eq__(self, other) ==
    IF ~IsInstance(other, "Uri") THEN "NotImplemented"
    ELSE str__cmp__("==", self, other)

Bin__eq__(self, other) ==
    IF ~IsInstance(other, "Bin") THEN "NotImplemented"
    ELSE str__cmp__("==", self, other)

--------------------------------------------------------------------------
(* Quantity (haystackapi/datatypes.py; hszinc/datatypes.py is the same).   *)

\* Quantity(value, unit) with MODE_PINT off: a BasicQuantity.
Quantity(value, unit) == [cls |-> "BasicQuantity", value |-> value, unit |-> unit]

\* to_pint(unit): the unit of the registry for a unit label.
to_pint(unit) ==
    IF unit = PyNone THEN PyNone
    ELSE IF unit.cls = "pint.Unit" THEN unit
    ELSE [cls |-> "pint.Unit", name |-> unit.s]

PintQuantity(value, unit) == [cls |-> "PintQuantity", value |-> value, unit |-> unit]

\* Quantity.__new__(cls, value, unit) under the mode mode_pint.
Quantity__new__(mode_pint, value, unit) ==
    IF mode_pint THEN PintQuantity(value, to_pint(unit))
    ELSE Quantity(value, unit)

\* to_pint as hszinc/datatypes.py binds it: the identity when Pint is
\* not installed.
hszinc_to_pint(available, unit) == IF available THEN to_pint(unit) ELSE unit

\* Quantity_Pint(value, unit) of hszinc: Quantity_Default when Pint is not
\* installed.
Quantity_Pint(available, value, unit) ==
    IF available THEN PintQuantity(value, unit) ELSE Quantity(value, unit)

\* float(value) of a number, of None and of a text that is no number.
float(value) ==
    CASE value.cls \in {"int", "float"} -> value
      [] value.cls = "str" -> Raised("ValueError")
      [] OTHER -> Raised("TypeError")

\* The truth of a number: every number but zero (NaN is true).
Truth(number) == number.cls = "float" \/ number.v # 0

\* quantity(value, unit) of hszinc/datatypes.py under the mode mode_pint:
\* the conversion of a Quantity, or the Quantity of a value.
quantity(mode_pint, available, value, unit) ==
    IF IsInstance(value, "Qty") \/ value.cls = "PintQuantity"
    THEN IF mode_pint
         THEN Quantity_Pint(available, value.value, hszinc_to_pint(available, value.unit))
         ELSE Quantity(value.value, hszinc_to_pint(available, value.unit))
    ELSE IF ~IsValue(float(value)) THEN float(value)
    ELSE IF Truth(float(value)) /\ mode_pint
    THEN Quantity_Pint(available, value, hszinc_to_pint(available, unit))
    ELSE IF Truth(float(value)) /\ ~mode_pint
    THEN Quantity(value, unit)
    ELSE Raised("ValueError")

\* A variant of use_pint that switches the mode on before it finds Pint
\* missing.
use_pint_SetBeforeCheck(mode_pint, available, val) ==
    IF val
    THEN [MODE_PINT |-> TRUE,
          out |-> IF available THEN PyNone ELSE Raised("ImportError")]
    ELSE [MODE_PINT |-> FALSE, out |-> PyNone]

\* use_pint(val): the new value of MODE_PINT and the outcome of the call.
use_pint(mode_pint, available, val) ==
    IF val
    THEN IF available THEN [MODE_PINT |-> TRUE, out |-> PyNone]
         ELSE [MODE_PINT |-> mode_pint, out |-> Raised("ImportError")]
    ELSE [MODE_PINT |-> FALSE, out |-> PyNone]

\* A _cmp_op that lets a plain number equal only a quantity without unit.
Qty_cmp_op_UnitAware(self, other, op) ==
    IF IsInstance(other, "Qty")
    THEN IF other.unit # self.unit THEN "TypeError"
         ELSE NumCmp(op, self.value, other.value)
    ELSE IF self.unit # PyNone THEN PyBool(op = "!=")
    ELSE ValueCmp(op, self.value, other)

Qty_cmp_op(self, other, op) ==
    IF IsInstance(other, "Qty")
    THEN IF other.unit # self.unit THEN "TypeError"
         ELSE NumCmp(op, self.value, other.value)
    ELSE ValueCmp(op, self.value, other)

Qty__eq__(self, other) == Qty_cmp_op(self, other, "==")

Qty__ne__(self, other) == Qty_cmp_op(self, other, "!=")

Qty__lt__(self, other) == Qty_cmp_op(self, other, "<")

Qty__le__(self, other) == Qty_cmp_op(self, other, "<=")

Qty__gt__(self, other) == Qty_cmp_op(self, other, ">")

Qty__ge__(self, other) == Qty_cmp_op(self, other, ">=")

--------------------------------------------------------------------------
(* Coordinate.                                                             *)

Coordinate(latitude, longitude) ==
    [cls |-> "Coordinate", latitude |-> latitude, longitude |-> longitude]

Coordinate__eq__(self, other) ==
    IF ~IsInstance(other, "Coordinate") THEN "NotImplemented"
    ELSE PyBool(NumCmp("==", self.latitude, other.latitude) = "True"
                /\ NumCmp("==", self.longitude, other.longitude) = "True")

Coordinate__ne__(self, other) ==
    IF ~IsInstance(other, "Coordinate") THEN "NotImplemented"
    ELSE PyBool(Coordinate__eq__(self, other) # "True")

--------------------------------------------------------------------------
(* The singletons.                                                         *)

\* An instance of a Singleton subclass; oid is its identity.
Instance(cls, oid) == [cls |-> cls, oid |-> oid]

SingletonClasses == {"MarkerType", "NAType", "RemoveType"}

\* The module-level instances.
MARKER == Instance("MarkerType", 1)

NA == Instance("NAType", 2)

REMOVE == Instance("RemoveType", 3)

Singleton__copy__(self) == self

Singleton__deepcopy__(self) == self

\* a is b: only the instances of the singleton classes and None have an
\* identity in the model; two objects of different classes are never one.
Is(a, b) ==
    /\ a.cls = b.cls
    /\ \/ a.cls = "NoneType"
       \/ a.cls \in SingletonClasses /\ a.oid = b.oid

--------------------------------------------------------------------------
(* Ref.                                                                    *)

\* One character of the class [a-zA-Z0-9_:\-.~].
IsNameChar(c) ==
    \/ c \in {"_", ":", "-", ".", "~"}
    \/ Ord(c) \in 48..57
    \/ Ord(c) \in 65..90
    \/ Ord(c) \in 97..122

\* re.match("^[a-zA-Z0-9_:\\-.~]+$", name): one or more characters of the
\* class up to the end of the text, where $ also matches just before a
\* newline that ends the text.
RefNameMatch(name) ==
    \E k \in 1..Len(name) :
        /\ \A i \in 1..k : IsNameChar(name[i])
        /\ \/ k = Len(name)
           \/ k = Len(name) - 1 /\ name[Len(name)] = "\n"

\* Ref(name, value, has_value) of haystackapi: value is None or a str.
Ref__init__(name, value, has_value) ==
    IF ~RefNameMatch(name) THEN Raised("AssertionError")
    ELSE [cls |-> "Ref", name |-> name, value |-> value,
          has_value |-> (has_value \/ value # PyNone)]

\* Ref(name, value, has_value) of the older hszinc model.
hszinc_Ref__init__(name, value, has_value) ==
    [cls |-> "hszinc.Ref", name |-> name, value |-> value,
     has_value |-> (has_value \/ value # PyNone)]

\* value == value for the values of a Ref: None or a str.
RefValueEq(v, w) == v.cls = w.cls /\ (v.cls = "str" => v.s = w.s)

\* A variant of Ref.__eq__ that compares the names only.
Ref__eq__NameOnly(self, other) ==
    IF ~IsInstance(other, "Ref") THEN "NotImplemented"
    ELSE PyBool(self.name = other.name)

Ref__eq__(self, other) ==
    IF ~IsInstance(other, "Ref") THEN "NotImplemented"
    ELSE PyBool(/\ self.name = other.name
                /\ self.has_value = other.has_value
                /\ RefValueEq(self.value, other.value))

Ref__ne__(self, other) ==
    IF ~IsInstance(other, "Ref") THEN "NotImplemented"
    ELSE PyBool(Ref__eq__(self, other) # "True")

\* A variant of the ordering of Refs that orders two Refs of one name by
\* their display values.
RefNameCmp_ThenValue(op, self, other) ==
    LET text(v) == IF v.cls = "str" THEN <<"~">> \o v.s ELSE <<>>
    IN  IF "name" \notin DOMAIN other THEN "AttributeError"
        ELSE IF self.name = other.name
        THEN str__cmp__(op, Str(text(self.value)), Str(text(other.value)))
        ELSE str__cmp__(op, Str(self.name), Str(other.name))

\* self.name.__op__(other.name)
RefNameCmp(op, self, other) ==
    IF "name" \notin DOMAIN other THEN "AttributeError"
    ELSE str__cmp__(op, Str(self.name), Str(other.name))

Ref__lt__(self, other) == RefNameCmp("<", self, other)

Ref__le__(self, other) == RefNameCmp("<=", self, other)

Ref__gt__(self, other) == RefNameCmp(">", self, other)

Ref__ge__(self, other) == RefNameCmp(">=", self, other)

--------------------------------------------------------------------------
(* XStr, with the codecs it calls: bytearray.fromhex, binascii.b2a_hex,    *)
(* base64.b64decode and binascii.b2a_base64.                               *)

Bytes(b) == [cls |-> "bytes", b |-> b]

ByteArray(b) == [cls |-> "bytearray", b |-> b]

IsBytesLike(v) == v.cls \in {"bytes", "bytearray"}

HexDigits ==
    <<"0", "1", "2", "3", "4", "5", "6", "7",
      "8", "9", "a", "b", "c", "d", "e", "f">>

\* The value of a hexadecimal digit of either case; 16 for any other character.
HexVal(c) ==
    IF \E i \in 1..16 : HexDigits[i] = c
    THEN (CHOOSE i \in 1..16 : HexDigits[i] = c) - 1
    ELSE CASE c = "A" -> 10 [] c = "B" -> 11 [] c = "C" -> 12
           [] c = "D" -> 13 [] c = "E" -> 14 [] c = "F" -> 15
           [] OTHER -> 16

IsSpace(c) == c \in {" ", "\n", "\t", "\r"}

\* bytearray.fromhex(s): pairs of digits, white space allowed between pairs.
RECURSIVE fromhex(_, _)
fromhex(s, out) ==
    IF s = <<>> THEN ByteArray(out)
    ELSE IF IsSpace(Head(s)) THEN fromhex(Tail(s), out)
    ELSE IF Len(s) < 2 \/ HexVal(s[1]) = 16 \/ HexVal(s[2]) = 16
         THEN Raised("ValueError")
    ELSE fromhex(Tail(Tail(s)), Append(out, 16 * HexVal(s[1]) + HexVal(s[2])))

\* binascii.b2a_hex(b).decode("ascii"): two lower-case digits a byte.
RECURSIVE b2a_hex(_)
b2a_hex(b) ==
    IF b = <<>> THEN <<>>
    ELSE <<HexDigits[(Head(b) \div 16) + 1], HexDigits[(Head(b) % 16) + 1]>>
         \o b2a_hex(Tail(b))

B64Alphabet ==
    <<"A", "B", "C", "D", "E", "F", "G", "H", "I", "J", "K", "L", "M",
      "N", "O", "P", "Q", "R", "S", "T", "U", "V", "W", "X", "Y", "Z",
      "a", "b", "c", "d", "e", "f", "g", "h", "i", "j", "k", "l", "m",
      "n", "o", "p", "q", "r", "s", "t", "u", "v", "w", "x", "y", "z",
      "0", "1", "2", "3", "4", "5", "6", "7", "8", "9", "+", "/">>

\* The six bits of a base64 character; 64 for a character outside the alphabet.
B64Index(c) ==
    IF \E i \in 1..64 : B64Alphabet[i] = c
    THEN (CHOOSE i \in 1..64 : B64Alphabet[i] = c) - 1
    ELSE 64

\* binascii.a2b_base64 without strict mode, as base64.b64decode(s) calls it:
\* characters outside the alphabet are skipped, a complete padding ends the
\* data, and data that stops inside a group of four is an error.
RECURSIVE a2b_base64(_, _, _, _, _)
a2b_base64(s, quad_pos, leftchar, pads, out) ==
    IF s = <<>>
    THEN IF quad_pos # 0 THEN Raised("binascii.Error") ELSE Bytes(out)
    ELSE LET c == Head(s)
             rest == Tail(s)
             v == B64Index(c)
         IN  IF c = "="
             THEN IF quad_pos >= 2
                  THEN IF quad_pos + pads + 1 >= 4 THEN Bytes(out)
                       ELSE a2b_base64(rest, quad_pos, leftchar, pads + 1, out)
                  ELSE a2b_base64(rest, quad_pos, leftchar, pads, out)
             ELSE IF v = 64
             THEN a2b_base64(rest, quad_pos, leftchar, pads, out)
             ELSE CASE quad_pos = 0 -> a2b_base64(rest, 1, v, 0, out)
                    [] quad_pos = 1 ->
                        a2b_base64(rest, 2, v % 16, 0,
                                   Append(out, leftchar * 4 + v \div 16))
                    [] quad_pos = 2 ->
                        a2b_base64(rest, 3, v % 4, 0,
                                   Append(out, leftchar * 16 + v \div 4))
                    [] quad_pos = 3 ->
                        a2b_base64(rest, 0, 0, 0,
                                   Append(out, leftchar * 64 + v))

b64decode(s) == a2b_base64(s, 0, 0, 0, <<>>)

\* binascii.b2a_base64(b, newline=False).decode("ascii")
RECURSIVE b2a_base64(_)
b2a_base64(b) ==
    IF b = <<>> THEN <<>>
    ELSE IF Len(b) = 1
    THEN <<B64Alphabet[(b[1] \div 4) + 1],
           B64Alphabet[((b[1] % 4) * 16) + 1], "=", "=">>
    ELSE IF Len(b) = 2
    THEN <<B64Alphabet[(b[1] \div 4) + 1],
           B64Alphabet[((b[1] % 4) * 16 + b[2] \div 16) + 1],
           B64Alphabet[((b[2] % 16) * 4) + 1], "=">>
    ELSE <<B64Alphabet[(b[1] \div 4) + 1],
           B64Alphabet[((b[1] % 4) * 16 + b[2] \div 16) + 1],
           B64Alphabet[((b[2] % 16) * 4 + b[3] \div 64) + 1],
           B64Alphabet[(b[3] % 64) + 1]>>
         \o b2a_base64(SubSeq(b, 4, Len(b)))

\* XStr(encoding, data): encoding and data are str.
XStr__init__(encoding, data) ==
    LET decoded == CASE encoding = "hex" -> fromhex(data, <<>>)
                     [] encoding = "b64" -> b64decode(data)
                     [] OTHER -> Str(data)
    IN  IF decoded.cls = "<raised>" THEN decoded
        ELSE [cls |-> "XStr", encoding |-> encoding, data |-> decoded]

\* A variant of data_to_string that keeps the newline binascii.b2a_base64
\* appends by default.
XStr_data_to_string_Newline(self) ==
    CASE self.encoding = "hex" -> Str(b2a_hex(self.data.b))
      [] self.encoding = "b64" -> Str(b2a_base64(self.data.b) \o <<"\n">>)
      [] OTHER -> self.data

XStr_data_to_string(self) ==
    CASE self.encoding = "hex" -> Str(b2a_hex(self.data.b))
      [] self.encoding = "b64" -> Str(b2a_base64(self.data.b))
      [] OTHER -> self.data

\* data == data for the data of an XStr: bytes and bytearray compare by
\* content with each other, str with str, and bytes never equal a str.
XStrDataEq(d, e) ==
    \/ IsBytesLike(d) /\ IsBytesLike(e) /\ d.b = e.b
    \/ d.cls = "str" /\ e.cls = "str" /\ d.s = e.s

\* A variant of XStr.__eq__ that compares the encodings too.
XStr__eq__Structural(self, other) ==
    IF ~IsInstance(other, "XStr") THEN "NotImplemented"
    ELSE PyBool(self.encoding = other.encoding
                /\ XStrDataEq(self.data, other.data))

XStr__eq__(self, other) ==
    IF ~IsInstance(other, "XStr") THEN "NotImplemented"
    ELSE PyBool(XStrDataEq(self.data, other.data))

--------------------------------------------------------------------------
(* The comparison operators and hash() of Python, over the classes above.  *)

\* object.__eq__ and object.__ne__, which a class without its own inherits.
object__eq__(self, other) == IF Is(self, other) THEN "True" ELSE "NotImplemented"

\* type(self).__op__(self, other): the method the class of self defines or
\* inherits for the operator.
TypeCmp(op, self, other) ==
    LET cls == self.cls
        \* object.__ne__ inverts the result of the __eq__ of the class.
        ne_of(eq) == IF eq \in {"True", "False"} THEN PyBool(eq = "False") ELSE eq
    IN  CASE cls = "str" -> str__cmp__(op, self, other)
          [] cls = "Uri" ->
                IF op = "==" THEN Uri__eq__(self, other)
                ELSE str__cmp__(op, self, other)
          [] cls = "Bin" ->
                IF op = "==" THEN Bin__eq__(self, other)
                ELSE str__cmp__(op, self, other)
          [] cls \in {"int", "float"} ->
                IF IsNumber(other) THEN NumCmp(op, self, other)
                ELSE "NotImplemented"
          [] cls = "BasicQuantity" -> Qty_cmp_op(self, other, op)
          [] cls = "Coordinate" ->
                (CASE op = "==" -> Coordinate__eq__(self, other)
                   [] op = "!=" -> Coordinate__ne__(self, other)
                   [] OTHER -> "NotImplemented")
          [] cls = "XStr" ->
                (CASE op = "==" -> XStr__eq__(self, other)
                   [] op = "!=" -> ne_of(XStr__eq__(self, other))
                   [] OTHER -> "NotImplemented")
          [] cls = "Ref" ->
                (CASE op = "==" -> Ref__eq__(self, other)
                   [] op = "!=" -> Ref__ne__(self, other)
                   [] op = "<" -> Ref__lt__(self, other)
                   [] op = "<=" -> Ref__le__(self, other)
                   [] op = ">" -> Ref__gt__(self, other)
                   [] op = ">=" -> Ref__ge__(self, other))
          [] OTHER ->
                (CASE op = "==" -> object__eq__(self, other)
                   [] op = "!=" -> ne_of(object__eq__(self, other))
                   [] OTHER -> "NotImplemented")

SwappedOp(op) ==
    CASE op = "<" -> ">"
      [] op = "<=" -> ">="
      [] op = ">" -> "<"
      [] op = ">=" -> "<="
      [] OTHER -> op

\* a op b, as the interpreter evaluates it: the reflected method of the right
\* operand first when its class is a proper subclass of the left one's, then
\* the method of the left operand, then the reflected one, then identity for
\* == and != and a TypeError for the orderings.
PyCmp(op, a, b) ==
    LET sub == a.cls # b.cls /\ a.cls \in Bases(b.cls)
        first == IF sub THEN TypeCmp(SwappedOp(op), b, a) ELSE "NotImplemented"
        second == TypeCmp(op, a, b)
        third == IF sub THEN "NotImplemented" ELSE TypeCmp(SwappedOp(op), b, a)
    IN  IF first # "NotImplemented" THEN first
        ELSE IF second # "NotImplemented" THEN second
        ELSE IF third # "NotImplemented" THEN third
        ELSE CASE op = "==" -> PyBool(Is(a, b))
               [] op = "!=" -> PyBool(~Is(a, b))
               [] OTHER -> "TypeError"

PyEq(a, b) == PyCmp("==", a, b)

PyNe(a, b) == PyCmp("!=", a, b)

CmpOps == {"==", "!=", "<", "<=", ">", ">="}

RECURSIVE Xor(_, _)
Xor(a, b) ==
    IF a = 0 THEN b
    ELSE IF b = 0 THEN a
    ELSE (((a % 2) + (b % 2)) % 2) + 2 * Xor(a \div 2, b \div 2)

\* hash() of a str: 0 for the empty one, otherwise a number that stands for
\* the per-process hash of the text.
RECURSIVE HashStr(_)
HashStr(s) ==
    IF s = <<>> THEN 0
    ELSE (Ord(Head(s)) + 131 * HashStr(Tail(s))) % 65521

Unhashable == -1

\* hash() of the built-in values: numbers, None, bool and str.
HashBuiltin(v) ==
    CASE v.cls = "int" -> v.v
      [] v.cls = "float" -> 0
      [] v.cls = "bool" -> IF v.v THEN 1 ELSE 0
      [] v.cls = "NoneType" -> 4238
      [] v.cls = "str" -> HashStr(v.s)

\* hash((x, y)) of a pair of built-in values.
HashPair(x, y) == (HashBuiltin(x) * 1009 + HashBuiltin(y) + 7919) % 65521

\* hash(type(v)) of a class.
HashClass(cls) == HashStr(<<"a">>) + Len(cls) + 30000

\* hash(v), or Unhashable when it raises TypeError: a class that defines
\* __eq__ and no __hash__ has __hash__ set to None.
PyHash(v) ==
    CASE v.cls \in {"int", "float", "bool", "NoneType", "str"} -> HashBuiltin(v)
      [] v.cls \in {"Uri", "Bin", "XStr", "hszinc.Ref"} -> Unhashable
      [] v.cls = "BasicQuantity" -> HashPair(v.value, v.unit)
      [] v.cls = "Coordinate" ->
            Xor(HashBuiltin(v.latitude), HashBuiltin(v.longitude))
      [] v.cls \in SingletonClasses -> HashClass(v.cls)
      [] v.cls = "Ref" ->
            Xor(Xor(HashStr(v.name), HashBuiltin(v.value)),
                HashBuiltin(PyBoolean(v.has_value)))

--------------------------------------------------------------------------
(* The CSV cell parser (haystackapi/csvparser.py).                         *)

\* _EMPTY: the module-level str "<empty>", which parse_grid tells from any
\* other str by identity (the field oid).
EMPTY ==
    [cls |-> "str", s |-> <<"<", "e", "m", "p", "t", "y", ">">>, oid |-> "_EMPTY"]

IsDigit(c) == Ord(c) \in 48..57

IsUnitChar(c) == Ord(c) \in 65..90 \/ Ord(c) \in 97..122 \/ c \in {"_", "/", "$"}

RECURSIVE DigitsValue(_, _)
DigitsValue(s, acc) ==
    IF s = <<>> THEN acc
    ELSE DigitsValue(Tail(s), 10 * acc + (Ord(Head(s)) - 48))

\* The Zinc scalar parser, on the literals of the model: the marker M, N
\* (null), the booleans T and F, a double-quoted string without escapes, and
\* a number of decimal digits with an optional unit.
zinc_parse_scalar(scalar) ==
    LET n == Len(scalar)
        digits == IF \E k \in 1..n : ~IsDigit(scalar[k])
                  THEN (CHOOSE k \in 1..n : ~IsDigit(scalar[k])
                            /\ \A j \in 1..(k - 1) : IsDigit(scalar[j])) - 1
                  ELSE n
        unit == SubSeq(scalar, digits + 1, n)
        quoted == /\ n >= 2
                  /\ scalar[1] = "\"" /\ scalar[n] = "\""
                  /\ \A k \in 2..(n - 1) : scalar[k] \notin {"\"", "\\", "\n"}
    IN  CASE scalar = <<"M">> -> MARKER
          [] scalar = <<"N">> -> PyNone
          [] scalar = <<"T">> -> PyBoolean(TRUE)
          [] scalar = <<"F">> -> PyBoolean(FALSE)
          [] quoted -> Str(SubSeq(scalar, 2, n - 1))
          [] digits >= 1 /\ \A k \in 1..Len(unit) : IsUnitChar(unit[k]) ->
                IF unit = <<>> THEN PyInt(DigitsValue(scalar, 0))
                ELSE Quantity(PyInt(DigitsValue(SubSeq(scalar, 1, digits), 0)),
                              Str(unit))
          [] OTHER -> Raised("ZincParseException")

\* s.split(' ', 1): the text before the first space and, when there is a
\* space, the text after it.
Split1(s) ==
    IF \E k \in 1..Len(s) : s[k] = " "
    THEN LET k == CHOOSE k \in 1..Len(s) :
                      s[k] = " " /\ \A j \in 1..(k - 1) : s[j] # " "
         IN  <<SubSeq(s, 1, k - 1), SubSeq(s, k + 1, Len(s))>>
    ELSE <<s>>

\* A variant of parse_scalar that tries the Zinc parser before the '@' rule.
parse_scalar_ZincBeforeRef(scalar) ==
    IF scalar = <<>> THEN EMPTY
    ELSE IF scalar = <<"CHECK">> THEN MARKER
    ELSE IF scalar = <<"t", "r", "u", "e">> THEN PyBoolean(TRUE)
    ELSE IF scalar = <<"f", "a", "l", "s", "e">> THEN PyBoolean(FALSE)
    ELSE LET z == zinc_parse_scalar(scalar)
         IN  IF z # Raised("ZincParseException") THEN z
             ELSE IF scalar[1] = "@" /\ RefNameMatch(Tail(scalar))
             THEN Ref__init__(Tail(scalar), PyNone, FALSE)
             ELSE Str(scalar)

parse_scalar(scalar) ==
    IF scalar = <<>> THEN EMPTY
    ELSE IF scalar = <<"CHECK">> THEN MARKER
    ELSE IF scalar = <<"t", "r", "u", "e">> THEN PyBoolean(TRUE)
    ELSE IF scalar = <<"f", "a", "l", "s", "e">> THEN PyBoolean(FALSE)
    ELSE IF scalar[1] = "@"
    THEN LET parts == Split1(Tail(scalar))
         IN  IF Len(parts) = 1 THEN Ref__init__(parts[1], PyNone, FALSE)
             ELSE Ref__init__(parts[1], Str(parts[2]), FALSE)
    ELSE LET z == zinc_parse_scalar(scalar)
         IN  IF z = Raised("ZincParseException") THEN Str(scalar) ELSE z

--------------------------------------------------------------------------
(* The CSV grid parser (haystackapi/csvparser.py).                         *)

\* csv.reader(StringIO(grid_str)) with the default dialect, not strict: the
\* records of the text, each a sequence of fields.  The lines end at "\n";
\* a quoted field may hold "\n" and a doubled quote; a quote inside an
\* unquoted field is an ordinary character; an empty line is a record of no
\* field; the end of the text closes the field and the record under way.
RECURSIVE reader(_, _, _, _, _)
reader(s, state, field, fields, out) ==
    IF s = <<>>
    THEN IF state = "START_RECORD" THEN out
         ELSE Append(out, Append(fields, field))
    ELSE LET c == Head(s)
             rest == Tail(s)
         IN  CASE state \in {"START_RECORD", "START_FIELD"} ->
                    (IF c = "\n"
                     THEN reader(rest, "START_RECORD", <<>>, <<>>,
                                 Append(out, IF state = "START_RECORD" THEN fields
                                             ELSE Append(fields, <<>>)))
                     ELSE IF c = "\""
                     THEN reader(rest, "IN_QUOTED_FIELD", <<>>, fields, out)
                     ELSE IF c = ","
                     THEN reader(rest, "START_FIELD", <<>>, Append(fields, <<>>), out)
                     ELSE reader(rest, "IN_FIELD", <<c>>, fields, out))
               [] state = "IN_FIELD" ->
                    (IF c = "\n"
                     THEN reader(rest, "START_RECORD", <<>>, <<>>,
                                 Append(out, Append(fields, field)))
                     ELSE IF c = ","
                     THEN reader(rest, "START_FIELD", <<>>, Append(fields, field), out)
                     ELSE reader(rest, "IN_FIELD", Append(field, c), fields, out))
               [] state = "IN_QUOTED_FIELD" ->
                    (IF c = "\""
                     THEN reader(rest, "QUOTE_IN_QUOTED_FIELD", field, fields, out)
                     ELSE reader(rest, "IN_QUOTED_FIELD", Append(field, c), fields, out))
               [] state = "QUOTE_IN_QUOTED_FIELD" ->
                    (IF c = "\""
                     THEN reader(rest, "IN_QUOTED_FIELD", Append(field, c), fields, out)
                     ELSE IF c = ","
                     THEN reader(rest, "START_FIELD", <<>>, Append(fields, field), out)
                     ELSE IF c = "\n"
                     THEN reader(rest, "START_RECORD", <<>>, <<>>,
                                 Append(out, Append(fields, field)))
                     ELSE reader(rest, "IN_FIELD", Append(field, c), fields, out))

csv_reader(grid_str) == reader(grid_str, "START_RECORD", <<>>, <<>>, <<>>)

\* Grid(version=VER_3_0, columns=...): the columns in order and no row.  A
\* duplicate column name is a SchemaError.
Grid(columns) ==
    IF \E i, j \in 1..Len(columns) : i # j /\ columns[i] = columns[j]
    THEN Raised("SchemaError")
    ELSE [cls |-> "Grid", columns |-> columns, rows |-> <<>>]

\* grid.append(a_map)
Grid_append(grid, a_map) == [grid EXCEPT !.rows = Append(@, a_map)]

\* A dict: its items as a function of its keys.
Dict(items) == [cls |-> "dict", items |-> items]

\* a_map[key] = value
SetItem(a_map, key, value) ==
    Dict([k \in (DOMAIN a_map.items) \cup {key} |->
              IF k = key THEN value ELSE a_map.items[k]])

\* A variant of the loop over the cells that also stores the None of a
\* Null cell.
RECURSIVE parse_row_KeepNone(_, _, _, _)
parse_row_KeepNone(row, idx, headers, a_map) ==
    IF idx > Len(row) THEN a_map
    ELSE LET value == parse_scalar(row[idx])
         IN  IF ~IsValue(value) THEN value
             ELSE IF value = EMPTY
             THEN parse_row_KeepNone(row, idx + 1, headers, a_map)
             ELSE IF idx > Len(headers) THEN Raised("ZincParseException")
             ELSE parse_row_KeepNone(row, idx + 1, headers,
                                     SetItem(a_map, headers[idx], value))

\* The loop of parse_grid over the cells of one record, from the cell idx
\* (counted from 1): the dict of the row, or the exception that ends it.
RECURSIVE parse_row(_, _, _, _)
parse_row(row, idx, headers, a_map) ==
    IF idx > Len(row) THEN a_map
    ELSE LET value == parse_scalar(row[idx])
         IN  IF ~IsValue(value) THEN value
             ELSE IF value = EMPTY
             THEN parse_row(row, idx + 1, headers, a_map)
             ELSE IF idx > Len(headers) THEN Raised("ZincParseException")
             ELSE IF value # PyNone
             THEN parse_row(row, idx + 1, headers,
                            SetItem(a_map, headers[idx], value))
             ELSE parse_row(row, idx + 1, headers, a_map)

\* The loop of parse_grid over the records after the header.
RECURSIVE parse_rows(_, _, _)
parse_rows(rows, headers, grid) ==
    IF rows = <<>> THEN grid
    ELSE LET a_map == parse_row(Head(rows), 1, headers, Dict(<<>>))
         IN  IF ~IsValue(a_map) THEN a_map
             ELSE parse_rows(Tail(rows), headers, Grid_append(grid, a_map))

\* parse_grid(grid_str): the grid, or the exception that leaves the call.
parse_grid(grid_str) ==
    LET records == csv_reader(grid_str)
    IN  IF records = <<>> THEN Raised("StopIteration")
        ELSE LET headers == Head(records)
                 grid == Grid(headers)
             IN  IF ~IsValue(grid) THEN grid
                 ELSE parse_rows(Tail(records), headers, grid)

--------------------------------------------------------------------------
(* The CSV dumper: RFC-4180 quoting, the Marker as U+2713, every other     *)
(* scalar in its canonical Zinc form.                                      *)

\* The decimal digits of a natural number.
RECURSIVE Digits(_)
Digits(n) ==
    LET d == <<"0", "1", "2", "3", "4", "5", "6", "7", "8", "9">>[(n % 10) + 1]
    IN  IF n < 10 THEN <<d>> ELSE Append(Digits(n \div 10), d)

\* The Zinc form of a scalar: T and F, a double-quoted string, the digits
\* of a number, @name or @name "display".
zinc_dump_scalar(scalar) ==
    CASE scalar.cls = "bool" -> IF scalar.v THEN <<"T">> ELSE <<"F">>
      [] scalar.cls = "str" -> <<"\"">> \o scalar.s \o <<"\"">>
      [] scalar.cls = "int" -> Digits(scalar.v)
      [] scalar.cls = "Ref" ->
            IF scalar.has_value
            THEN <<"@">> \o scalar.name \o <<" ", "\"">> \o scalar.value.s \o <<"\"">>
            ELSE <<"@">> \o scalar.name

\* The text of a cell: empty for an absent value, U+2713 for the Marker.
csv_dump_scalar(scalar) ==
    IF scalar = PyNone THEN <<>>
    ELSE IF scalar = MARKER THEN <<"CHECK">>
    ELSE zinc_dump_scalar(scalar)

RECURSIVE DoubleQuotes(_)
DoubleQuotes(s) ==
    IF s = <<>> THEN <<>>
    ELSE (IF Head(s) = "\"" THEN <<"\"", "\"">> ELSE <<Head(s)>>)
             \o DoubleQuotes(Tail(s))

\* RFC-4180: a field that holds a comma, a quote or a line break is put
\* between quotes, its quotes doubled.
csv_quote(field) ==
    IF \E k \in 1..Len(field) : field[k] \in {",", "\"", "\n"}
    THEN <<"\"">> \o DoubleQuotes(field) \o <<"\"">>
    ELSE field

RECURSIVE Join(_, _)
Join(parts, sep) ==
    IF parts = <<>> THEN <<>>
    ELSE IF Len(parts) = 1 THEN parts[1]
    ELSE parts[1] \o sep \o Join(Tail(parts), sep)

\* One line of the text: the cell of each column, None where the row has no
\* key for the column.
csv_dump_row(columns, row) ==
    Join([c \in 1..Len(columns) |->
              csv_quote(csv_dump_scalar(IF columns[c] \in DOMAIN row.items
                                        THEN row.items[columns[c]]
                                        ELSE PyNone))],
         <<",">>)

\* dump(grid, mode=MODE_CSV): the header line and one line per row, each
\* ended by a line break.
csv_dump_grid(grid) ==
    Join(<<Join([c \in 1..Len(grid.columns) |-> csv_quote(grid.columns[c])], <<",">>)>>
             \o [r \in 1..Len(grid.rows) |-> csv_dump_row(grid.columns, grid.rows[r])],
         <<"\n">>) \o <<"\n">>

--------------------------------------------------------------------------
(* Format negotiation (haystackapi/ops.py, with accept_types).             *)

\* A mime type: the text type/subtype.
MimeType(type, subtype) == [cls |-> "str", type |-> type, subtype |-> subtype]

MODE_CSV == MimeType("text", "csv")

MODE_ZINC == MimeType("text", "zinc")

MODE_JSON == MimeType("application", "json")

DEFAULT_MIME_TYPE == MODE_CSV

DEFAULT_MIME_TYPE_WITH_METADATA == MODE_ZINC

AnyMimeType == MimeType("*", "*")

\* A text that the pattern of a mime type does not match.
InvalidMimeType == MimeType("<invalid>", "")

\* HttpError(error, msg)
HttpError(error, msg) ==
    [cls |-> "<raised>", exc |-> "HttpError", error |-> error, msg |-> msg]

\* Decimal, in tenths.
Decimal(tenths) == [cls |-> "Decimal", tenths |-> tenths]

\* The q parameter of an entry of the header: none, one that Decimal
\* rejects (".", "1.2.3", "-"), or a number.
NoQ == [kind |-> "none"]

BadQ == [kind |-> "invalid"]

Q(tenths) == [kind |-> "decimal", tenths |-> tenths]

\* get_weight(tail): Decimal of the q parameter that the pattern
\* q=([0-9.-]+) finds, and 1 without one.  Decimal raises InvalidOperation,
\* which is no ValueError and so is not caught.
get_weight(q) ==
    IF q = NoQ THEN Decimal(10)
    ELSE IF q = BadQ THEN Raised("InvalidOperation")
    ELSE Decimal(q.tenths)

\* AcceptableType(raw_mime_type): ValueError for a text that is no mime
\* type, else the mime type and its weight.
AcceptableType(raw) ==
    IF raw.mime_type = InvalidMimeType THEN Raised("ValueError")
    ELSE LET weight == get_weight(raw.q)
         IN  IF ~IsValue(weight) THEN weight
             ELSE [cls |-> "AcceptableType", mime_type |-> raw.mime_type,
                   weight |-> weight]

\* acceptable_type.matches(available_type): the pattern is the mime type
\* with each * replaced by [a-zA-Z0-9_.$#!%^*-]+, which also matches "*".
matches(acceptable_type, available_type) ==
    /\ acceptable_type.mime_type.type \in {"*", available_type.type}
    /\ acceptable_type.mime_type.subtype \in {"*", available_type.subtype}

\* sorted(mime_types, reverse=True) by weight: a stable sort, so entries of
\* equal weight keep the order of the header.
RECURSIVE InsertByWeight(_, _)
InsertByWeight(sorted, x) ==
    IF sorted = <<>> THEN <<x>>
    ELSE IF Head(sorted).weight.tenths < x.weight.tenths THEN <<x>> \o sorted
    ELSE <<Head(sorted)>> \o InsertByWeight(Tail(sorted), x)

PyList(items) == [cls |-> "list", items |-> items]

\* parse_header(header): the entries that are mime types, by decreasing
\* weight; or the exception an entry raises.
RECURSIVE parse_header(_, _)
parse_header(header, mime_types) ==
    IF header = <<>> THEN PyList(mime_types)
    ELSE LET x == AcceptableType(Head(header))
         IN  IF x = Raised("ValueError") THEN parse_header(Tail(header), mime_types)
             ELSE IF ~IsValue(x) THEN x
             ELSE parse_header(Tail(header), InsertByWeight(mime_types, x))

RECURSIVE FirstMatch(_, _)
FirstMatch(acceptable_types, available_types) ==
    IF acceptable_types = <<>> THEN PyNone
    ELSE LET hits == {k \in 1..Len(available_types) :
                          matches(Head(acceptable_types), available_types[k])}
         IN  IF hits # {}
             THEN available_types[CHOOSE k \in hits : \A j \in hits : k <= j]
             ELSE FirstMatch(Tail(acceptable_types), available_types)

\* get_best_match(header, available_types)
get_best_match(header, available_types) ==
    LET acceptable_types == parse_header(header, <<>>)
    IN  IF ~IsValue(acceptable_types) THEN acceptable_types
        ELSE FirstMatch(acceptable_types.items, available_types)

\* A grid to dump: only its metadata matter to the handlers.
MetaGrid(metadata) == [cls |-> "Grid", metadata |-> metadata]

EmptyGrid == MetaGrid(<<>>)

\* dump(grid, mode): the text of the grid in the format mode.
dump(grid, mode) == [cls |-> "str", mode |-> mode, grid |-> grid]

PyTuple(items) == [cls |-> "tuple", items |-> items]

\* _dump_response(accept, grid, default): the pair of the content type and
\* the body, or the exception raised.
dump_response(accept, grid, default) ==
    LET accept_type ==
            get_best_match(accept, <<AnyMimeType, MODE_CSV, MODE_ZINC, MODE_JSON>>)
    IN  IF ~IsValue(accept_type) THEN accept_type
        ELSE IF accept_type \in {DEFAULT_MIME_TYPE, AnyMimeType}
        THEN PyTuple(<<DEFAULT_MIME_TYPE, dump(grid, DEFAULT_MIME_TYPE)>>)
        ELSE IF accept_type = MODE_ZINC
        THEN PyTuple(<<MODE_ZINC, dump(grid, MODE_ZINC)>>)
        ELSE IF accept_type = MODE_JSON
        THEN PyTuple(<<MODE_JSON, dump(grid, MODE_JSON)>>)
        ELSE IF default # PyNone
        THEN PyTuple(<<default, dump(grid, default)>>)
        ELSE HttpError(406, "Accept not supported")

--------------------------------------------------------------------------
(* The negotiation of the encoding (haystackapi/ops.py).  An entry of the  *)
(* header is its encoding type and its q parameter.                        *)

\* A text that _valid_encoding_type does not match.
InvalidEncodingType == "<invalid>"

\* _AcceptableEncoding(raw_encoding_type): ValueError for a text that is no
\* encoding type, else the encoding type and its weight.
AcceptableEncoding(raw) ==
    IF raw.encoding_type = InvalidEncodingType THEN Raised("ValueError")
    ELSE LET weight == get_weight(raw.q)
         IN  IF ~IsValue(weight) THEN weight
             ELSE [cls |-> "_AcceptableEncoding",
                   encoding_type |-> raw.encoding_type, weight |-> weight]

\* _parse_header(header): the entries that are encoding types, by
\* decreasing weight; or the exception an entry raises.
RECURSIVE parse_encoding_header(_, _)
parse_encoding_header(header, encoding_types) ==
    IF header = <<>> THEN PyList(encoding_types)
    ELSE LET x == AcceptableEncoding(Head(header))
         IN  IF x = Raised("ValueError")
             THEN parse_encoding_header(Tail(header), encoding_types)
             ELSE IF ~IsValue(x) THEN x
             ELSE parse_encoding_header(Tail(header),
                                        InsertByWeight(encoding_types, x))

\* The loops of get_best_encoding_match: the pattern of an entry matches
\* its own encoding type only.
RECURSIVE FirstEncodingMatch(_, _)
FirstEncodingMatch(acceptable_types, available_encoding) ==
    IF acceptable_types = <<>> THEN PyNone
    ELSE LET hits == {k \in 1..Len(available_encoding) :
                          available_encoding[k] = Head(acceptable_types).encoding_type}
         IN  IF hits # {}
             THEN Str(available_encoding[CHOOSE k \in hits : \A j \in hits : k <= j])
             ELSE FirstEncodingMatch(Tail(acceptable_types), available_encoding)

\* get_best_encoding_match(header, available_encoding)
get_best_encoding_match(header, available_encoding) ==
    LET acceptable_types == parse_encoding_header(header, <<>>)
    IN  IF ~IsValue(acceptable_types) THEN acceptable_types
        ELSE FirstEncodingMatch(acceptable_types.items, available_encoding)

--------------------------------------------------------------------------
(* The body of a request (haystackapi/ops.py, _parse_body).  A text is     *)
(* empty, the text of a grid in one format, or no grid in any format; a    *)
(* body is such a text, plain or as the base64 text of its gzip.           *)

Text(kind, format, keys) == [kind |-> kind, format |-> format, keys |-> keys]

EmptyText == Text("empty", PyNone, {})

Body(coding, text) == [coding |-> coding, text |-> text]

\* The text a body is read as when it is not decoded: the base64 text of a
\* gzip is no grid.
AsText(body) ==
    IF body.coding = "plain" THEN body.text ELSE Text("garbage", PyNone, {})

\* EmptyGrid, seen from the handlers: a grid without rows.
NoRowsGrid == [cls |-> "Grid", rows |-> 0, keys |-> {}]

\* Grid(version=VER_3_0): a grid of version 3.0 without rows.
NewGrid_3_0 == [cls |-> "Grid", rows |-> 0, keys |-> {}, version |-> "3.0"]

\* mode_to_suffix(mode): the suffix of a supported format, else None.
mode_to_suffix(mode) ==
    CASE mode = MODE_ZINC -> Str(<<".", "z">>)
      [] mode = MODE_JSON -> Str(<<".", "j">>)
      [] mode = MODE_CSV -> Str(<<".", "c">>)
      [] OTHER -> PyNone

\* parse(grid_str, mode): None for an empty text, the grid of a text of
\* the format mode, and a ParseError for any other text.
parse(grid_str, mode) ==
    CASE grid_str.kind = "empty" -> PyNone
      [] grid_str.kind = "grid" /\ grid_str.format = mode ->
            [cls |-> "Grid", rows |-> 1, keys |-> grid_str.keys]
      [] OTHER -> Raised("ZincParseException")

\* gzip.decompress(base64.b64decode(body)).decode("utf-8"): the text of a
\* body in base64 of gzip; the empty text of the empty text; and for any
\* other plain text the error err (binascii.Error or BadGzipFile).
decompress(body, err) ==
    IF body.coding = "gzip" THEN body.text
    ELSE IF body.text.kind = "empty" THEN body.text
    ELSE Raised(err)

\* _parse_body that keeps a parse result of None.
parse_content_KeepNone(content_type, text) ==
    LET mode == IF content_type = PyNone THEN DEFAULT_MIME_TYPE ELSE content_type
    IN  IF content_type = PyNone \/ mode_to_suffix(content_type) # PyNone
        THEN parse(text, mode)
        ELSE IF text.kind # "empty"
        THEN HttpError(406, "Content-Type not supported")
        ELSE NewGrid_3_0

\* The parsing of _parse_body, after the decoding: the grid of the text
\* under the Content-Type.
parse_content(content_type, text) ==
    LET mode == IF content_type = PyNone THEN DEFAULT_MIME_TYPE ELSE content_type
        grid == IF content_type = PyNone \/ mode_to_suffix(content_type) # PyNone
                THEN parse(text, mode)
                ELSE IF text.kind # "empty"
                THEN HttpError(406, "Content-Type not supported")
                ELSE NewGrid_3_0
    IN  IF grid = PyNone THEN NoRowsGrid ELSE grid

\* _parse_body(request): the request after the call, and the grid returned
\* or the exception raised.  A base64 request with a Content-Encoding is
\* decoded first, and the request keeps the decoded body and gets the
\* attribute isBase64Encoded; its field is_base64 is left as it is.
ParseBody(req, err) ==
    IF req.headers.ContentEncoding # "<absent>" /\ req.is_base64
    THEN IF req.headers.ContentEncoding # "gzip"
         THEN [request |-> req, out |-> Raised("ValueError")]
         ELSE LET text == decompress(req.body, err)
              IN  IF ~("kind" \in DOMAIN text)
                  THEN [request |-> req, out |-> text]
                  ELSE [request |-> [req EXCEPT !.body = Body("plain", text),
                                                !.isBase64Encoded = "False"],
                        out |-> parse_content(req.headers.ContentType, text)]
    ELSE [request |-> req,
          out |-> parse_content(req.headers.ContentType, AsText(req.body))]

\* The request a handler gets, as _parse_body reads it.
BodyRequest(req) ==
    [op |-> "_parse_body",
     headers |-> [ContentType |-> IF req.body.kind = "unsupported"
                                  THEN MimeType("text", "html") ELSE PyNone,
                  ContentEncoding |-> "<absent>"],
     body |-> Body("plain",
                   CASE req.body.kind = "none" -> EmptyText
                     [] req.body.kind = "grid" ->
                           Text("grid", DEFAULT_MIME_TYPE, req.body.keys)
                     [] OTHER -> Text("garbage", PyNone, {})),
     is_base64 |-> FALSE, isBase64Encoded |-> "<unset>"]

--------------------------------------------------------------------------
(* The operation handlers (haystackapi/ops.py).  A request carries the     *)
(* keys its query string holds (args), what its body parses to and the     *)
(* keys the body grid holds (columns, metadata and cells of its first      *)
(* row), its Accept and Host headers.                                      *)

\* A value of a parameter, taken from the body grid or from the args.
Val(src, key) == [cls |-> "value", src |-> src, key |-> key]

\* _parse_body(request) in a handler: the grid of the body (rows: 0 for an
\* empty body, whose grid is false; keys: what the grid holds), a
\* ParseError for a text that is no grid, or HttpError 406 for a body in
\* an unsupported Content-Type.
parse_body(req) == ParseBody(BodyRequest(req), "BadGzipFile").out

\* A call of an operation of the provider.
ProviderCall(op, args) == [op |-> op, args |-> args]

\* A grid of the provider: its metadata and its columns.
ProviderGrid(metadata, columns) ==
    [cls |-> "Grid", metadata |-> metadata, columns |-> columns]

\* "key" in grid.metadata
HasMetadataKey(grid, key) ==
    \E i \in DOMAIN grid.metadata : grid.metadata[i].key = key

\* "name" in grid.column
HasColumn(grid, name) ==
    "columns" \in DOMAIN grid /\ \E i \in DOMAIN grid.columns : grid.columns[i] = name

\* What the provider does when it is called: it returns a grid that has
\* the metadata and the columns the handlers assert, a grid that lacks
\* some of them, None, or it raises an HttpError or another exception.
ProviderOutcomes ==
    {ProviderGrid(<<[key |-> "watchId", value |-> "w1"],
                    [key |-> "lease", value |-> "1"]>>,
                  <<"level", "levelDis", "val", "who">>),
     ProviderGrid(<<[key |-> "watchId", value |-> "w1"]>>, <<"level", "val">>),
     ProviderGrid(<<[key |-> "lease", value |-> "1"]>>, <<>>),
     MetaGrid(<<>>), PyNone,
     HttpError(404, "Not found"), Raised("Exception")}

\* The outcome of a try block up to the grid to send: the calls made to
\* the provider, and the grid or the exception raised.
Tried(calls, grid) == [calls |-> calls, result |-> grid]

\* provider.<op>(...) followed by "assert grid_response is not None".
CallAndAssert(provider_call, outcome) ==
    Tried(<<provider_call>>, IF outcome = PyNone THEN Raised("AssertionError") ELSE outcome)

\* about: the home URL is made of the Host header, and of the stage unless
\* the host is local.
about(req, outcome) ==
    IF req.headers.Host = "<absent>" THEN Tried(<<>>, Raised("KeyError"))
    ELSE CallAndAssert(
             ProviderCall("about",
                 <<IF req.headers.Host = "localhost:"
                   THEN <<"http://", req.headers.Host, "/">>
                   ELSE <<"https://", req.headers.Host, "/", req.stage>>>>),
             outcome)

ops(req, outcome) == CallAndAssert(ProviderCall("ops", <<>>), outcome)

\* formats: a provider that returns None gets the default grid of formats.
formats(req, outcome) ==
    Tried(<<ProviderCall("formats", <<>>)>>,
          IF outcome = PyNone THEN MetaGrid(<<"formats">>) ELSE outcome)

\* read with the filter and the limit of the query string taken whether or
\* not it holds an id.
read_ArgsFilterWithId(req, outcome) ==
    LET grid_request == parse_body(req)
        args == req.args
        has(key) == grid_request.rows > 0 /\ key \in grid_request.keys
        ids0 == IF has("id") THEN Val("body", "id") ELSE PyNone
        filter0 == IF grid_request.rows = 0 \/ has("id") THEN PyNone
                   ELSE IF has("filter") THEN Val("body", "filter")
                   ELSE Str(<<>>)
        limit0 == IF ~has("id") /\ has("limit") THEN Val("body", "limit")
                  ELSE PyInt(0)
        select0 == IF has("select") THEN Val("body", "select") ELSE PyNone
        version0 == IF has("version") THEN Val("body", "version") ELSE PyNone
        read_ids == IF "id" \in args THEN Val("args", "id") ELSE ids0
        read_filter == IF "filter" \in args
                       THEN Val("args", "filter") ELSE filter0
        limit == IF "limit" \in args
                 THEN Val("args", "limit") ELSE limit0
        select == IF "select" \in args THEN Val("args", "select") ELSE select0
        date_version == IF "version" \in args THEN Val("args", "version")
                        ELSE version0
    IN  IF ~IsValue(grid_request) THEN Tried(<<>>, grid_request)
        ELSE IF read_ids = PyNone /\ read_filter = PyNone
        THEN Tried(<<>>, Raised("ValueError"))
        ELSE CallAndAssert(
                 ProviderCall("read", <<limit, select, read_ids, read_filter,
                                        date_version>>),
                 outcome)

\* read: the parameters from the body grid, then those of the query string.
read(req, outcome) ==
    LET grid_request == parse_body(req)
        args == req.args
        has(key) == grid_request.rows > 0 /\ key \in grid_request.keys
        ids0 == IF has("id") THEN Val("body", "id") ELSE PyNone
        filter0 == IF grid_request.rows = 0 \/ has("id") THEN PyNone
                   ELSE IF has("filter") THEN Val("body", "filter")
                   ELSE Str(<<>>)
        limit0 == IF ~has("id") /\ has("limit") THEN Val("body", "limit")
                  ELSE PyInt(0)
        select0 == IF has("select") THEN Val("body", "select") ELSE PyNone
        version0 == IF has("version") THEN Val("body", "version") ELSE PyNone
        read_ids == IF "id" \in args THEN Val("args", "id") ELSE ids0
        read_filter == IF "id" \notin args /\ "filter" \in args
                       THEN Val("args", "filter") ELSE filter0
        limit == IF "id" \notin args /\ "limit" \in args
                 THEN Val("args", "limit") ELSE limit0
        select == IF "select" \in args THEN Val("args", "select") ELSE select0
        date_version == IF "version" \in args THEN Val("args", "version")
                        ELSE version0
    IN  IF ~IsValue(grid_request) THEN Tried(<<>>, grid_request)
        ELSE IF read_ids = PyNone /\ read_filter = PyNone
        THEN Tried(<<>>, Raised("ValueError"))
        ELSE CallAndAssert(
                 ProviderCall("read", <<limit, select, read_ids, read_filter,
                                        date_version>>),
                 outcome)

\* The value of a parameter that the query string overrides: that of the
\* args when they hold the key, else that of the body grid when it has
\* rows and holds the key, else the default.
Param(grid_request, args, key, default) ==
    IF key \in args THEN Val("args", key)
    ELSE IF grid_request.rows > 0 /\ key \in grid_request.keys
    THEN Val("body", key)
    ELSE default

nav(req, outcome) ==
    LET grid_request == parse_body(req)
    IN  IF ~IsValue(grid_request) THEN Tried(<<>>, grid_request)
        ELSE CallAndAssert(
                 ProviderCall("nav", <<Param(grid_request, req.args, "navId", PyNone)>>),
                 outcome)

\* watch_sub: a body grid must hold watchDis, and the watchDis must not be
\* empty; the grid of the provider must hold watchId and lease.
watch_sub(req, outcome) ==
    LET grid_request == parse_body(req)
        watch_dis == Param(grid_request, req.args, "watchDis", PyNone)
    IN  IF ~IsValue(grid_request) THEN Tried(<<>>, grid_request)
        ELSE IF grid_request.rows > 0 /\ "watchDis" \notin grid_request.keys
        THEN Tried(<<>>, Raised("KeyError"))
        ELSE IF watch_dis = PyNone \/ watch_dis.src \in req.empty
        THEN Tried(<<>>, Raised("ValueError"))
        ELSE Tried(<<ProviderCall("watch_sub",
                        <<watch_dis,
                          Param(grid_request, req.args, "watchId", PyNone),
                          Param(grid_request, req.args, "ids", PyList(<<>>)),
                          Param(grid_request, req.args, "lease", PyNone)>>)>>,
                   IF ~IsValue(outcome) THEN outcome
                   ELSE IF \/ outcome = PyNone
                           \/ ~HasMetadataKey(outcome, "watchId")
                           \/ ~HasMetadataKey(outcome, "lease")
                   THEN Raised("AssertionError")
                   ELSE outcome)

\* watch_unsub: what the provider returns is dropped.
watch_unsub(req, outcome) ==
    LET grid_request == parse_body(req)
        watch_id == Param(grid_request, req.args, "watchId", PyBoolean(FALSE))
    IN  IF ~IsValue(grid_request) THEN Tried(<<>>, grid_request)
        ELSE IF watch_id = PyBoolean(FALSE) THEN Tried(<<>>, Raised("ValueError"))
        ELSE Tried(<<ProviderCall("watch_unsub",
                        <<watch_id,
                          Param(grid_request, req.args, "ids", PyList(<<>>)),
                          Param(grid_request, req.args, "close", PyBoolean(FALSE))>>)>>,
                   IF IsValue(outcome) THEN EmptyGrid ELSE outcome)

watch_poll(req, outcome) ==
    LET grid_request == parse_body(req)
    IN  IF ~IsValue(grid_request) THEN Tried(<<>>, grid_request)
        ELSE CallAndAssert(
                 ProviderCall("watch_poll",
                     <<Param(grid_request, req.args, "watchId", PyNone),
                       PyBoolean("refresh" \in req.args
                              \/ (grid_request.rows > 0
                                  /\ "refresh" \in grid_request.keys))>>),
                 outcome)

\* point_write with two operations of the provider in a row.
point_write_WriteThenRead(req, outcome) ==
    Tried(<<ProviderCall("point_write_write", <<>>),
            ProviderCall("point_write_read", <<>>)>>,
          outcome)

\* point_write: a body grid must hold id; with a value the point is
\* written, without one its array is read.
point_write(req, outcome) ==
    LET grid_request == parse_body(req)
        args == req.args
        entity_id == Param(grid_request, args, "id", PyNone)
        level == Param(grid_request, args, "level", PyInt(17))
        val == IF "who" \in args THEN Val("args", "who")
               ELSE Param(grid_request, args, "val", PyNone)
        who == Param(grid_request, {}, "who", PyNone)
        duration == Param(grid_request, args, "duration", PyNone)
        date_version == Param(grid_request, args, "version", PyNone)
    IN  IF ~IsValue(grid_request) THEN Tried(<<>>, grid_request)
        ELSE IF grid_request.rows > 0 /\ "id" \notin grid_request.keys
        THEN Tried(<<>>, Raised("KeyError"))
        ELSE IF entity_id = PyNone THEN Tried(<<>>, Raised("ValueError"))
        ELSE IF val # PyNone
        THEN Tried(<<ProviderCall("point_write_write",
                        <<entity_id, level, val, who, duration, date_version>>)>>,
                   IF IsValue(outcome) THEN EmptyGrid ELSE outcome)
        ELSE Tried(<<ProviderCall("point_write_read", <<entity_id, date_version>>)>>,
                   IF ~IsValue(outcome) THEN outcome
                   ELSE IF \/ outcome = PyNone
                           \/ \E name \in {"level", "levelDis", "val", "who"} :
                                  ~HasColumn(outcome, name)
                   THEN Raised("AssertionError")
                   ELSE outcome)

\* his_read: the time zone of the provider resolves the range.
his_read(req, outcome) ==
    LET grid_request == parse_body(req)
        called == CallAndAssert(
                      ProviderCall("his_read",
                          <<Param(grid_request, req.args, "id", PyNone),
                            Param(grid_request, req.args, "range", PyNone),
                            Param(grid_request, req.args, "version", PyNone)>>),
                      outcome)
    IN  IF ~IsValue(grid_request) THEN Tried(<<>>, grid_request)
        ELSE Tried(<<ProviderCall("get_tz", <<>>)>> \o called.calls, called.result)

\* his_write: id and version are metadata of the body grid.
his_write(req, outcome) ==
    LET grid_request == parse_body(req)
        meta(key) == IF IsValue(grid_request) /\ key \in grid_request.keys
                     THEN Val("body", key) ELSE PyNone
    IN  IF ~IsValue(grid_request) THEN Tried(<<>>, grid_request)
        ELSE CallAndAssert(
                 ProviderCall("his_write",
                     <<IF "id" \in req.args THEN Val("args", "id") ELSE meta("id"),
                       IF "ts" \in req.args THEN Val("args", "ts")
                       ELSE Val("body", "grid"),
                       IF "version" \in req.args THEN Val("args", "version")
                       ELSE meta("version")>>),
                 outcome)

invoke_action(req, outcome) ==
    LET grid_request == parse_body(req)
        meta(key) == IF IsValue(grid_request) /\ key \in grid_request.keys
                     THEN Val("body", key) ELSE PyNone
    IN  IF ~IsValue(grid_request) THEN Tried(<<>>, grid_request)
        ELSE CallAndAssert(
                 ProviderCall("invoke_action",
                     <<IF "id" \in req.args THEN Val("args", "id") ELSE meta("id"),
                       IF "action" \in req.args THEN Val("args", "action")
                       ELSE meta("action"),
                       IF grid_request.rows > 0 THEN Val("body", "row")
                       ELSE Dict(<<>>)>>),
                 outcome)

\* HaystackHttpResponse: the status, the Content-Type header and the body.
HaystackHttpResponse(status_code, status, content_type, body) ==
    [cls |-> "HaystackHttpResponse", status_code |-> status_code,
     status |-> status, headers |-> [ContentType |-> content_type],
     body |-> body]

\* _format_response: the grid dumped in the format the Accept header asks
\* for (text/csv without the header), or what _dump_response raises.
format_response(headers, grid_response, status_code, status_msg, default) ==
    LET hs_response ==
            dump_response(IF headers.Accept = PyNone
                          THEN <<[mime_type |-> DEFAULT_MIME_TYPE, q |-> NoQ]>>
                          ELSE headers.Accept.items,
                          grid_response, default)
    IN  IF ~IsValue(hs_response) THEN hs_response
        ELSE HaystackHttpResponse(status_code, status_msg,
                                  hs_response.items[1], hs_response.items[2])

\* The grid of an error: the marker err, and the traceback in stage dev.
error_grid(traceback, stage) ==
    MetaGrid(<<[key |-> "err", value |-> "MARKER"],
               [key |-> "id", value |-> "badId"],
               [key |-> "errTrace",
                value |-> IF stage = "dev" THEN traceback ELSE ""]>>)

\* _manage_exception with the traceback in every stage.
manage_exception_AlwaysTrace(headers, ex, traceback, stage) ==
    format_response(headers, error_grid(traceback, "dev"),
                    IF ex.exc = "HttpError" THEN ex.error ELSE 400,
                    IF ex.exc = "HttpError" THEN ex.msg ELSE "ERROR",
                    DEFAULT_MIME_TYPE_WITH_METADATA)

\* _manage_exception: the response of an exception ex whose traceback is
\* traceback; the status of an HttpError is its own, else 400 ERROR.
manage_exception(headers, ex, traceback, stage) ==
    format_response(headers, error_grid(traceback, stage),
                    IF ex.exc = "HttpError" THEN ex.error ELSE 400,
                    IF ex.exc = "HttpError" THEN ex.msg ELSE "ERROR",
                    DEFAULT_MIME_TYPE_WITH_METADATA)

\* The try block of the handler of an operation.
Handler(req, outcome) ==
    CASE req.op = "about" -> about(req, outcome)
      [] req.op = "ops" -> ops(req, outcome)
      [] req.op = "formats" -> formats(req, outcome)
      [] req.op = "read" -> read(req, outcome)
      [] req.op = "nav" -> nav(req, outcome)
      [] req.op = "watch_sub" -> watch_sub(req, outcome)
      [] req.op = "watch_unsub" -> watch_unsub(req, outcome)
      [] req.op = "watch_poll" -> watch_poll(req, outcome)
      [] req.op = "point_write" -> point_write(req, outcome)
      [] req.op = "his_read" -> his_read(req, outcome)
      [] req.op = "his_write" -> his_write(req, outcome)
      [] req.op = "invoke_action" -> invoke_action(req, outcome)

--------------------------------------------------------------------------
(* The SQLite provider (haystackapi/providers/db_sqlite.py).  A statement  *)
(* is the sequence of its pieces, the placeholders being the pieces "?".   *)

\* get_db_parameters(table_name)["SELECT_ENTITY"].
SELECT_ENTITY ==
    <<"SELECT entity FROM table_name WHERE ", "?",
      " BETWEEN start_datetime AND end_datetime AND customer_id = ", "?">>

\* The number of placeholders of a statement.
Placeholders(sql) == Cardinality({i \in DOMAIN sql : sql[i] = "?"})

\* cursor.execute(sql, parameters) on the rows of the table: sqlite3 refuses
\* a number of parameters that is not the number of placeholders; else the
\* rows SELECT_ENTITY selects are those of the customer valid at the version.
cursor_execute(rows, sql, parameters) ==
    IF Len(parameters) # Placeholders(sql)
    THEN Raised("ProgrammingError")
    ELSE [cls |-> "Cursor",
          rows |-> {row \in rows :
                       /\ row.start_datetime <= parameters[1]
                       /\ parameters[1] <= row.end_datetime
                       /\ row.customer_id = parameters[2]}]

\* _exec_sql_filter(params, cursor, table_name, grid_filter, version, limit,
\* customer_id): the statements given to cursor.execute with their
\* parameters, and what the call returns or raises.
exec_sql_filter(rows, grid_filter, version, customer_id) ==
    IF grid_filter = PyNone \/ grid_filter = Str(<<>>)
    THEN LET parameters == <<version, version, customer_id>>
             cursor == cursor_execute(rows, SELECT_ENTITY, parameters)
         IN  [executed |-> <<[sql |-> SELECT_ENTITY, parameters |-> parameters]>>,
              cursor |-> cursor,
              out |-> IF IsValue(cursor) THEN PyNone ELSE cursor]
    ELSE [executed |-> <<>>, cursor |-> [cls |-> "Cursor", rows |-> {}],
          out |-> Raised("NotImplementedError")]

--------------------------------------------------------------------------
(* The inputs of the model.                                                *)

TextChars == {"a", "b"}

TextStrings == SeqsUpTo(TextChars, MaxStrLen)

Numbers == {PyInt(n) : n \in 0..MaxValue} \cup {NaN}

Units == {PyNone, Str(<<"a">>), Str(<<"b">>)}

\* Two characters of a Ref name, and two that no name may hold.
NameChars == {"a", "b", " ", "\n"}

RefNames == SeqsUpTo(NameChars, MaxNameLen)

RefValues == {PyNone, Str(<<>>), Str(<<"x">>)}

\* CSV cells that hold a Ref: '@', a name and perhaps a display value.
RefCells ==
    {<<"@">> \o n : n \in RefNames}
        \cup {<<"@">> \o n \o <<" ", "x">> : n \in RefNames}

HexChars == {"d", "E", " "}

B64Chars == {"3", "g", "="}

XStrInputs ==
    ({"hex"} \X SeqsUpTo(HexChars, MaxEncodedLen))
        \cup ({"b64"} \X SeqsUpTo(B64Chars, MaxEncodedLen))
        \cup ({"text", "json"} \X TextStrings)

\* The Refs and the XStrs that the constructors build from these inputs.
RefObjects ==
    {r \in {Ref__init__(n, v, h) : n \in RefNames, v \in RefValues, h \in BOOLEAN} :
        IsValue(r)}

XStrObjects ==
    {x \in {XStr__init__(in[1], in[2]) : in \in XStrInputs} : IsValue(x)}

CellChars == {"@", "a", " ", "CHECK", "M", "N", "1"}

Cells ==
    SeqsUpTo(CellChars, MaxCellLen)
        \cup {<<"t", "r", "u", "e">>, <<"f", "a", "l", "s", "e">>,
              <<"t", "r", "u">>, <<"t", "r", "u", "e", " ">>,
              <<"f", "a", "l", "s", "e", "1">>}

\* The scalars of the cells of a grid that is dumped to CSV.
GridScalars ==
    {MARKER, PyBoolean(TRUE), PyInt(1),
     Str(<<>>), Str(<<"a">>), Str(<<"t", "r", "u", "e">>), Str(<<"CHECK">>),
     Str(<<"@", "a">>), Str(<<"1">>),
     Ref__init__(<<"a">>, PyNone, FALSE), Ref__init__(<<"a">>, Str(<<"x">>), FALSE)}

GridColumns == {<<<<"a">>>>, <<<<"a">>, <<"b">>>>}

\* The rows over some columns: a value for each column of a subset.
GridRows(columns) ==
    UNION {{Dict(f) : f \in [keys -> GridScalars]} : keys \in SUBSET Range(columns)}

\* The grids without metadata: columns and up to MaxRows rows.
Grids ==
    UNION {{[cls |-> "Grid", columns |-> columns, rows |-> rows] :
                rows \in SeqsUpTo(GridRows(columns), MaxRows)} :
           columns \in GridColumns}

\* The entries of an Accept header: the three formats, the wildcards, a
\* type that is none of the formats, and a text that is no mime type; with
\* no q, q=0.5, or a q that Decimal rejects.
AcceptEntries ==
    [mime_type : {MODE_CSV, MODE_ZINC, MODE_JSON, AnyMimeType,
                  MimeType("text", "*"), MimeType("text", "html"), InvalidMimeType},
     q : {NoQ, Q(5), BadQ}]

\* The Accept headers: the entries between the commas.
AcceptHeaders == SeqsUpTo(AcceptEntries, MaxAcceptEntries)

\* The arguments of the factory quantity: numbers, quantities of either
\* class, None and a text.
QuantityArgs ==
    Numbers
    \cup {Quantity(v, u) : v \in Numbers, u \in Units}
    \cup {PintQuantity(v, to_pint(u)) : v \in Numbers, u \in Units}
    \cup {PyNone, Str(<<"a">>)}

\* The versions of the entities: the dates 1..MaxVersion.
Versions == 1..MaxVersion

\* The rows of the table of entities, and the tables of at most two rows.
EntityRows ==
    {row \in [customer_id : {"c1", "c2"}, start_datetime : Versions,
              end_datetime : Versions] :
        row.start_datetime <= row.end_datetime}

Tables == {rows \in SUBSET EntityRows : Cardinality(rows) <= 2}

\* The entries of an encoding header, and the headers.
EncodingEntries ==
    [encoding_type : {"gzip", "deflate", InvalidEncodingType},
     q : {NoQ, Q(5), BadQ}]

EncodingHeaders == SeqsUpTo(EncodingEntries, MaxAcceptEntries)

AvailableEncodings == {<<>>, <<"gzip">>, <<"deflate", "gzip">>}

\* The operations of the API.
Operations ==
    {"about", "ops", "formats", "read", "nav", "watch_sub", "watch_unsub",
     "watch_poll", "point_write", "his_read", "his_write", "invoke_action"}

\* The keys that decide which way a handler goes.
ControlKeys(op) ==
    CASE op = "read" -> {"id", "filter"}
      [] op = "watch_sub" -> {"watchDis"}
      [] op = "watch_unsub" -> {"watchId"}
      [] op = "point_write" -> {"id", "val"}
      [] OTHER -> {}

\* The parameters of read.
ReadKeys == {"id", "filter", "limit", "select", "version"}

\* The bodies of a request: none, a text that is no grid, a text in an
\* unsupported Content-Type, or a grid that holds some of the keys.
Bodies(keys) ==
    {[kind |-> k, keys |-> {}] : k \in {"none", "garbage", "unsupported"}}
    \cup {[kind |-> "grid", keys |-> ks] : ks \in SUBSET keys}

\* The Accept headers of the requests: none, a supported format, an
\* unsupported one, and one whose q is no number.
HandlerAccepts ==
    {PyNone,
     PyList(<<[mime_type |-> MODE_CSV, q |-> NoQ]>>),
     PyList(<<[mime_type |-> MODE_JSON, q |-> NoQ]>>),
     PyList(<<[mime_type |-> MimeType("text", "html"), q |-> NoQ]>>),
     PyList(<<[mime_type |-> MODE_CSV, q |-> BadQ]>>)}

Stages == {"dev", "prod"}

\* HaystackHttpRequest and the stage the handler is called with; empty holds the sources ("args", "body") whose watchDis is the empty
\* text.
HaystackHttpRequest(op, accept, host, args, body, stage) ==
    [op |-> op, headers |-> [Accept |-> accept, Host |-> host],
     args |-> args, body |-> body, empty |-> {}, stage |-> stage]

\* The requests of all operations, with the keys that decide their way.
OpsRequests ==
    {HaystackHttpRequest("about", accept, host, {}, [kind |-> "none", keys |-> {}], stage) :
        accept \in HandlerAccepts, host \in {"<absent>", "localhost:", "host"},
        stage \in Stages}
    \cup UNION {
        {HaystackHttpRequest(op, accept, "host", args, body, stage) :
            accept \in HandlerAccepts, args \in SUBSET ControlKeys(op),
            body \in IF op \in {"ops", "formats"}
                     THEN {[kind |-> "none", keys |-> {}]}
                     ELSE Bodies(ControlKeys(op)),
            stage \in Stages} : op \in Operations \ {"about"}}

\* The requests of read, with all its parameters.
ReadRequests ==
    {HaystackHttpRequest("read", PyNone, "host", args, body, "prod") :
        args \in SUBSET ReadKeys, body \in Bodies(ReadKeys)}

\* The parameters of point_write.
PointWriteKeys == {"id", "level", "val", "who", "version"}

\* The requests of point_write, with all its parameters.
PointWriteRequests ==
    {HaystackHttpRequest("point_write", PyNone, "host", args, body, "prod") :
        args \in SUBSET PointWriteKeys, body \in Bodies(PointWriteKeys)}

\* The requests _parse_body is called with.
ContentTypes == {PyNone, MODE_CSV, MODE_ZINC, MODE_JSON, MimeType("text", "html")}

ContentEncodings == {"<absent>", "gzip", "deflate"}

Texts ==
    {EmptyText, Text("garbage", PyNone, {})}
        \cup {Text("grid", format, {"id"}) : format \in {MODE_CSV, MODE_ZINC, MODE_JSON}}

BodyRequests ==
    {[op |-> "_parse_body",
      headers |-> [ContentType |-> content_type, ContentEncoding |-> content_encoding],
      body |-> Body(coding, text),
      is_base64 |-> is_base64, isBase64Encoded |-> "<unset>"] :
        content_type \in ContentTypes, content_encoding \in ContentEncodings,
        coding \in {"plain", "gzip"}, text \in Texts, is_base64 \in BOOLEAN}

\* The errors of the decoding of a text that is no base64 of a gzip.
DecodeErrors == {"binascii.Error", "BadGzipFile"}

\* The requests of watch_sub, with a watchDis that may be empty.
WatchSubRequests ==
    {[HaystackHttpRequest("watch_sub", accept, "host", args, body, "prod")
         EXCEPT !.empty = empty] :
        accept \in HandlerAccepts, args \in SUBSET {"watchDis", "watchId"},
        body \in Bodies({"watchDis", "watchId"}),
        empty \in SUBSET {"args", "body"}}

\* What traceback.format_exc() gives for the exception being handled.
Tracebacks == {"Traceback 1", "Traceback 2"}

\* An exception caught by the except clause of a handler.
Caught(ex, traceback) == [cls |-> "<caught>", ex |-> ex, traceback |-> traceback]

GridChars == {"a", ",", "\n", "\"", "@", "N"}

\* The texts given to the CSV parse_grid.
GridTexts == SeqsUpTo(GridChars, MaxTextLen)

--------------------------------------------------------------------------
(* The state machine.  An action either evaluates an expression and binds  *)
(* its value to one of the two operands, or makes one call and records it  *)
(* with its arguments and its outcome.                                     *)

NoRequest == [op |-> "<none>"]

NoResult == [cls |-> "<unbound>"]

NoResponse == [cls |-> "<unbound>"]

Init ==
    /\ objs = [i \in Slots |-> NoObj]
    /\ nextOid = 4
    /\ call = NoCall
    /\ MODE_PINT = FALSE
    /\ PINT_AVAILABLE \in BOOLEAN
    /\ lastUsePint = "<none>"
    /\ request = NoRequest
    /\ pc = "idle"
    /\ providerCalls = <<>>
    /\ result = NoResult
    /\ response = NoResponse

NewStr(i, s) ==
    /\ objs' = [objs EXCEPT ![i] = Str(s)]
    /\ UNCHANGED <<nextOid, call, httpVars>>
    /\ UNCHANGED pintVars

NewUri(i, s) ==
    /\ objs' = [objs EXCEPT ![i] = Uri(s)]
    /\ UNCHANGED <<nextOid, call, httpVars>>
    /\ UNCHANGED pintVars

NewBin(i, s) ==
    /\ objs' = [objs EXCEPT ![i] = Bin(s)]
    /\ UNCHANGED <<nextOid, call, httpVars>>
    /\ UNCHANGED pintVars

\* objs[i] = v, a plain number
NewNumber(i, v) ==
    /\ objs' = [objs EXCEPT ![i] = v]
    /\ UNCHANGED <<nextOid, call, httpVars>>
    /\ UNCHANGED pintVars

NewQuantity(i, v, u) ==
    /\ objs' = [objs EXCEPT ![i] = Quantity__new__(MODE_PINT, v, u)]
    /\ UNCHANGED <<nextOid, call, httpVars>>
    /\ UNCHANGED pintVars

NewCoordinate(i, lat, long) ==
    /\ objs' = [objs EXCEPT ![i] = Coordinate(lat, long)]
    /\ UNCHANGED <<nextOid, call, httpVars>>
    /\ UNCHANGED pintVars

\* objs[i] = MARKER, NA or REMOVE, imported from the module.
ImportSingleton(i, v) ==
    /\ objs' = [objs EXCEPT ![i] = v]
    /\ UNCHANGED <<nextOid, call, httpVars>>
    /\ UNCHANGED pintVars

\* objs[i] = MarkerType(), NAType() or RemoveType(): the classes are public
\* and each call makes a new instance.
NewSingleton(i, cls) ==
    /\ nextOid <= MaxInstances
    /\ objs' = [objs EXCEPT ![i] = Instance(cls, nextOid)]
    /\ nextOid' = nextOid + 1
    /\ UNCHANGED <<call, pintVars, httpVars>>

\* objs[j] = copy.copy(objs[i])
Copy(i, j) ==
    /\ objs[i].cls \in SingletonClasses
    /\ objs' = [objs EXCEPT ![j] = Singleton__copy__(objs[i])]
    /\ UNCHANGED <<nextOid, call, httpVars>>
    /\ UNCHANGED pintVars

\* objs[j] = copy.deepcopy(objs[i])
DeepCopy(i, j) ==
    /\ objs[i].cls \in SingletonClasses
    /\ objs' = [objs EXCEPT ![j] = Singleton__deepcopy__(objs[i])]
    /\ UNCHANGED <<nextOid, call, httpVars>>
    /\ UNCHANGED pintVars

\* objs[i] = Ref(name, value, has_value), for a construction that succeeds.
NewRef(i, ref) ==
    /\ objs' = [objs EXCEPT ![i] = ref]
    /\ UNCHANGED <<nextOid, call, httpVars>>
    /\ UNCHANGED pintVars

\* objs[i] = XStr(encoding, data), for a construction that succeeds.
NewXStr(i, xstr) ==
    /\ objs' = [objs EXCEPT ![i] = xstr]
    /\ UNCHANGED <<nextOid, call, httpVars>>
    /\ UNCHANGED pintVars

CallRef(name, value, has_value) ==
    /\ call' = [fn |-> "Ref", args |-> <<name, value, has_value>>,
                out |-> Ref__init__(name, value, has_value)]
    /\ UNCHANGED <<objs, nextOid, pintVars, httpVars>>

CallHszincRef(name, value, has_value) ==
    /\ call' = [fn |-> "hszinc.Ref", args |-> <<name, value, has_value>>,
                out |-> hszinc_Ref__init__(name, value, has_value)]
    /\ UNCHANGED <<objs, nextOid, pintVars, httpVars>>

\* Ref(args["id"][1:]) of the operations that take an id from the query string.
CallQueryRef(id) ==
    /\ call' = [fn |-> "args.id", args |-> <<id>>,
                out |-> Ref__init__(Tail(id), PyNone, FALSE)]
    /\ UNCHANGED <<objs, nextOid, pintVars, httpVars>>

CallXStr(encoding, data) ==
    /\ call' = [fn |-> "XStr", args |-> <<encoding, data>>,
                out |-> XStr__init__(encoding, data)]
    /\ UNCHANGED <<objs, nextOid, pintVars, httpVars>>

CallParseScalar(cell) ==
    /\ call' = [fn |-> "parse_scalar", args |-> <<cell>>,
                out |-> parse_scalar(cell)]
    /\ UNCHANGED <<objs, nextOid, pintVars, httpVars>>

\* use_pint(val)
UsePint(val) ==
    LET r == use_pint(MODE_PINT, PINT_AVAILABLE, val)
    IN  /\ MODE_PINT' = r.MODE_PINT
        /\ lastUsePint' = IF IsValue(r.out) THEN (IF val THEN "True" ELSE "False")
                          ELSE lastUsePint
        /\ call' = [fn |-> "use_pint", args |-> <<val>>, out |-> r.out]
        /\ UNCHANGED <<objs, nextOid, PINT_AVAILABLE, httpVars>>

\* One call of _dump_response.
CallDumpResponse(accept, default) ==
    /\ call.fn = "<none>"
    /\ call' = [fn |-> "_dump_response", args |-> <<accept, default>>,
                out |-> dump_response(accept, EmptyGrid, default)]
    /\ UNCHANGED <<objs, nextOid, pintVars, httpVars>>

\* One call of the CSV parse_grid.
CallParseGrid(grid_str) ==
    /\ call.fn = "<none>"
    /\ call' = [fn |-> "parse_grid", args |-> <<grid_str>>,
                out |-> parse_grid(grid_str)]
    /\ UNCHANGED <<objs, nextOid, pintVars, httpVars>>

\* One dump of a grid to CSV, parsed again.
CallCsvRoundTrip(grid) ==
    /\ call.fn = "<none>"
    /\ call' = [fn |-> "csv_round_trip", args |-> <<grid>>,
                text |-> csv_dump_grid(grid),
                out |-> parse_grid(csv_dump_grid(grid))]
    /\ UNCHANGED <<objs, nextOid, pintVars, httpVars>>

TextNext ==
    \E i \in Slots, s \in TextStrings :
        \/ NewStr(i, s)
        \/ NewUri(i, s)
        \/ NewBin(i, s)

QtyNext ==
    \E i \in Slots, v \in Numbers :
        \/ NewNumber(i, v)
        \/ \E u \in Units : NewQuantity(i, v, u)

CoordNext ==
    \E i \in Slots, lat \in Numbers, long \in Numbers :
        NewCoordinate(i, lat, long)

SingletonNext ==
    \E i \in Slots :
        \/ \E v \in {MARKER, NA, REMOVE} : ImportSingleton(i, v)
        \/ \E cls \in SingletonClasses : NewSingleton(i, cls)
        \/ \E j \in Slots : Copy(i, j)
        \/ \E j \in Slots : DeepCopy(i, j)

RefNext == \E i \in Slots, ref \in RefObjects : NewRef(i, ref)

RefCtorNext ==
    \/ \E name \in RefNames, value \in RefValues, has_value \in BOOLEAN :
        \/ CallRef(name, value, has_value)
        \/ CallHszincRef(name, value, has_value)
    \/ \E name \in RefNames : CallQueryRef(<<"@">> \o name)
    \/ \E cell \in RefCells : CallParseScalar(cell)

XStrNext == \E i \in Slots, xstr \in XStrObjects : NewXStr(i, xstr)

XStrCtorNext == \E in \in XStrInputs : CallXStr(in[1], in[2])

CsvNext == \E cell \in Cells : CallParseScalar(cell)

CsvGridNext == \E grid_str \in GridTexts : CallParseGrid(grid_str)

\* The CSV grid parser.
SpecCsvGrid == Init /\ [][CsvGridNext]_vars

CsvRoundTripNext == \E grid \in Grids : CallCsvRoundTrip(grid)

\* The CSV dumper followed by the CSV parser.
SpecCsvRoundTrip == Init /\ [][CsvRoundTripNext]_vars

\* quantity(value, unit) is called, once.
CallQuantity(value, unit) ==
    /\ call.fn # "quantity"
    /\ call' = [fn |-> "quantity", args |-> <<value, unit>>,
                out |-> quantity(MODE_PINT, PINT_AVAILABLE, value, unit)]
    /\ UNCHANGED <<objs, nextOid, pintVars, httpVars>>

\* _exec_sql_filter is called on a table, once.
CallExecSqlFilter(rows, grid_filter, version, customer_id) ==
    /\ call.fn = "<none>"
    /\ LET r == exec_sql_filter(rows, grid_filter, version, customer_id)
       IN  call' = [fn |-> "_exec_sql_filter",
                    args |-> <<rows, grid_filter, version, customer_id>>,
                    executed |-> r.executed, cursor |-> r.cursor, out |-> r.out]
    /\ UNCHANGED <<objs, nextOid, pintVars, httpVars>>

\* get_best_encoding_match is called, once.
CallBestEncoding(header, available_encoding) ==
    /\ call.fn = "<none>"
    /\ call' = [fn |-> "get_best_encoding_match",
                args |-> <<header, available_encoding>>,
                out |-> get_best_encoding_match(header, available_encoding)]
    /\ UNCHANGED <<objs, nextOid, pintVars, httpVars>>

\* A request object is built.
NewRequest(req) ==
    /\ request = NoRequest
    /\ request' = req
    /\ UNCHANGED <<objs, nextOid, call, pintVars, pc, providerCalls, result, response>>

\* _parse_body is called with the request object, which it may change;
\* the requests it got and what it returned or raised are kept.
CallParseBody(err) ==
    /\ request.op = "_parse_body"
    /\ LET ins == IF call.fn = "_parse_body" THEN call.ins ELSE <<>>
           outs == IF call.fn = "_parse_body" THEN call.outs ELSE <<>>
           parsed == ParseBody(request, err)
       IN  /\ Len(outs) < MaxParseCalls
           /\ request' = parsed.request
           /\ call' = [fn |-> "_parse_body", ins |-> Append(ins, request),
                       outs |-> Append(outs, parsed.out)]
    /\ UNCHANGED <<objs, nextOid, pintVars, pc, providerCalls, result, response>>

\* A handler is called with a request.
Receive(req) ==
    /\ pc = "idle"
    /\ request' = req
    /\ pc' = "try"
    /\ UNCHANGED <<objs, nextOid, call, pintVars, providerCalls, result, response>>

\* The try block of the handler: the operation, then the response 200 OK
\* of its grid; an exception of either goes to the except clause.
Try(outcome, traceback) ==
    /\ pc = "try"
    /\ LET tried == Handler(request, outcome)
           sent == IF IsValue(tried.result)
                   THEN format_response(request.headers, tried.result, 200, "OK",
                                        PyNone)
                   ELSE tried.result
       IN  /\ providerCalls' = providerCalls \o tried.calls
           /\ IF IsValue(sent)
              THEN /\ result' = tried.result
                   /\ response' = sent
                   /\ pc' = "done"
              ELSE /\ result' = Caught(sent, traceback)
                   /\ response' = response
                   /\ pc' = "except"
    /\ UNCHANGED <<objs, nextOid, call, pintVars, request>>

\* The except clause of the handler: the response of _manage_exception,
\* or the exception it raises, which leaves the handler.
ManageException ==
    /\ pc = "except"
    /\ response' = manage_exception(request.headers, result.ex, result.traceback,
                                    request.stage)
    /\ pc' = "done"
    /\ UNCHANGED <<objs, nextOid, call, pintVars, request, providerCalls, result>>

PintNext ==
    \/ \E val \in BOOLEAN : UsePint(val)
    \/ \E i \in Slots, v \in Numbers, u \in Units : NewQuantity(i, v, u)

\* The unit-registry mode and the quantities constructed under it.
SpecPint == Init /\ [][PintNext]_vars

HszincQuantityNext ==
    \/ \E val \in BOOLEAN : UsePint(val)
    \/ \E value \in QuantityArgs, unit \in Units : CallQuantity(value, unit)

\* The factory quantity of hszinc under the modes use_pint selects.
SpecHszincQuantity == Init /\ [][HszincQuantityNext]_vars

SqliteNext ==
    \E rows \in Tables, grid_filter \in {PyNone, Str(<<>>), Str(<<"a">>)},
       version \in Versions, customer_id \in {"c1", "c2"} :
        CallExecSqlFilter(rows, grid_filter, version, customer_id)

\* The filter of the SQLite provider.
SpecSqlite == Init /\ [][SqliteNext]_vars

EncodingNext ==
    \E header \in EncodingHeaders, available_encoding \in AvailableEncodings :
        CallBestEncoding(header, available_encoding)

\* The negotiation of the encoding.
SpecEncoding == Init /\ [][EncodingNext]_vars

ParseBodyNext ==
    \/ \E req \in BodyRequests : NewRequest(req)
    \/ \E err \in DecodeErrors : CallParseBody(err)

\* The calls of _parse_body with one request object.
SpecParseBody == Init /\ [][ParseBodyNext]_vars

PointWriteNext ==
    \/ \E req \in PointWriteRequests : Receive(req)
    \/ \E outcome \in ProviderOutcomes, traceback \in Tracebacks :
           Try(outcome, traceback)
    \/ ManageException

\* The handler of point_write with all its parameters.
SpecPointWrite == Init /\ [][PointWriteNext]_vars

WatchSubNext ==
    \/ \E req \in WatchSubRequests : Receive(req)
    \/ \E outcome \in ProviderOutcomes, traceback \in Tracebacks :
           Try(outcome, traceback)
    \/ ManageException

\* The handler of watch_sub.
SpecWatchSub == Init /\ [][WatchSubNext]_vars

OpsNext ==
    \/ \E req \in OpsRequests : Receive(req)
    \/ \E outcome \in ProviderOutcomes, traceback \in Tracebacks :
           Try(outcome, traceback)
    \/ ManageException

\* The handlers of all operations, one request each.
SpecOps == Init /\ [][OpsNext]_vars

ReadNext ==
    \/ \E req \in ReadRequests : Receive(req)
    \/ \E outcome \in ProviderOutcomes, traceback \in Tracebacks :
           Try(outcome, traceback)
    \/ ManageException

\* The handler of read with all its parameters.
SpecRead == Init /\ [][ReadNext]_vars

DumpResponseNext ==
    \E accept \in AcceptHeaders, default \in {PyNone, DEFAULT_MIME_TYPE_WITH_METADATA} :
        CallDumpResponse(accept, default)

\* The format negotiation.
SpecDumpResponse == Init /\ [][DumpResponseNext]_vars

\* Pairs of Str, Uri and Bin.
SpecText == Init /\ [][TextNext]_vars

\* Pairs of quantities and plain numbers.
SpecQty == Init /\ [][QtyNext]_vars

\* Pairs of instances of the singleton classes.
SpecSingleton == Init /\ [][SingletonNext]_vars

\* Pairs of Refs.
SpecRef == Init /\ [][RefNext]_vars

\* Every way a Ref is constructed.
SpecRefCtor == Init /\ [][RefCtorNext]_vars

\* Pairs of XStr.
SpecXStr == Init /\ [][XStrNext]_vars

\* The construction of one XStr.
SpecXStrCtor == Init /\ [][XStrCtorNext]_vars

\* The CSV cell parser.
SpecCsv == Init /\ [][CsvNext]_vars

\* Pairs of scalars of every kind.
Next ==
    \/ TextNext
    \/ QtyNext
    \/ CoordNext
    \/ SingletonNext
    \/ RefNext
    \/ XStrNext

Spec == Init /\ [][Next]_vars

--------------------------------------------------------------------------
(* The properties.                                                         *)

TextClasses == {"str", "Uri", "Bin"}

\* C1: for every string s, the plain string s, Uri(s) and Bin(s) are
\* pairwise unequal in both operand orders: == is false and != is true
\* between any two of them.
C1_TextClassesUnequal ==
    \A i, j \in Slots :
        (/\ objs[i].cls \in TextClasses
         /\ objs[j].cls \in TextClasses
         /\ objs[i].cls # objs[j].cls
         /\ objs[i].s = objs[j].s)
        => /\ PyEq(objs[i], objs[j]) = "False"
           /\ PyNe(objs[i], objs[j]) = "True"

\* C2: every two scalar values are hashable, and a == b implies
\* hash(a) == hash(b).
C2_EqualImpliesSameHash ==
    \A i, j \in Slots :
        (IsValue(objs[i]) /\ IsValue(objs[j]))
        => /\ PyHash(objs[i]) # Unhashable
           /\ PyHash(objs[j]) # Unhashable
           /\ (PyEq(objs[i], objs[j]) = "True"
                  => PyHash(objs[i]) = PyHash(objs[j]))

IsQuantity(v) == IsInstance(v, "Qty")

\* C3: two Quantities are equal iff their values compare equal and their
\* units are equal, and comparing two Quantities whose units differ returns
\* a boolean (false for every operator but !=) and never raises.
C3_QuantityComparisonTotal ==
    \A i, j \in Slots :
        (IsQuantity(objs[i]) /\ IsQuantity(objs[j]))
        => /\ (PyEq(objs[i], objs[j]) = "True")
                  <=> (/\ NumCmp("==", objs[i].value, objs[j].value) = "True"
                       /\ objs[i].unit = objs[j].unit)
           /\ objs[i].unit # objs[j].unit
                  => \A op \in CmpOps :
                        /\ PyCmp(op, objs[i], objs[j]) \in {"True", "False"}
                        /\ op # "!=" => PyCmp(op, objs[i], objs[j]) = "False"

\* A non-empty text over the characters [A-Za-z0-9_:-.~].
ValidRefName(name) ==
    /\ Len(name) >= 1
    /\ \A k \in 1..Len(name) : IsNameChar(name[k])

RefClasses == {"Ref", "hszinc.Ref"}

\* C4: every Ref that exists has a valid name: whatever the path that
\* constructs it (the class, a CSV cell, a query-string id, the hszinc
\* class), the construction yields a Ref only when the name is valid.
C4_RefNameAlwaysValid ==
    (call.fn # "<none>" /\ call.out.cls \in RefClasses)
        => ValidRefName(call.out.name)

IsRef(v) == v.cls = "Ref"

\* C5: two Refs are equal iff their names, their has_value and their values
\* are equal, has_value is true whenever the value is not None, and a != b
\* is the negation of a == b.
C5_RefEquality ==
    \A i, j \in Slots :
        (IsRef(objs[i]) /\ IsRef(objs[j]))
        => /\ PyEq(objs[i], objs[j]) \in {"True", "False"}
           /\ (PyEq(objs[i], objs[j]) = "True")
                  <=> (/\ objs[i].name = objs[j].name
                       /\ objs[i].has_value = objs[j].has_value
                       /\ objs[i].value = objs[j].value)
           /\ PyNe(objs[i], objs[j]) = PyBool(PyEq(objs[i], objs[j]) = "False")
           /\ objs[i].value # PyNone => objs[i].has_value

\* Two Refs of one name that differ in their display value only, and are
\* not equal.
C5_Witness ==
    /\ IsRef(objs[1]) /\ IsRef(objs[2])
    /\ objs[1].name = objs[2].name
    /\ objs[1].has_value /\ objs[2].has_value
    /\ objs[1].value = PyNone /\ objs[2].value = Str(<<>>)
    /\ PyEq(objs[1], objs[2]) = "False"
    /\ PyNe(objs[1], objs[2]) = "True"

OrderOps == {"<", "<=", ">", ">="}

\* The Ref of the same name without a display value.
NameOnly(ref) == [ref EXCEPT !.value = PyNone, !.has_value = FALSE]

\* C6: the four orderings of two Refs are those of their names: the result
\* is the comparison of the names and does not change when the display
\* values are taken away.
C6_RefOrderByName ==
    \A i, j \in Slots :
        (IsRef(objs[i]) /\ IsRef(objs[j]))
        => \A op \in OrderOps :
              /\ PyCmp(op, objs[i], objs[j])
                     = PyCmp(op, NameOnly(objs[i]), NameOnly(objs[j]))
              /\ PyCmp(op, objs[i], objs[j])
                     = CASE op = "<" -> PyBool(StrLess(objs[i].name, objs[j].name))
                         [] op = "<=" -> PyBool(~StrLess(objs[j].name, objs[i].name))
                         [] op = ">" -> PyBool(StrLess(objs[j].name, objs[i].name))
                         [] op = ">=" -> PyBool(~StrLess(objs[i].name, objs[j].name))

\* Two Refs of one name and different display values: neither is below the
\* other, though they are not equal; and two Refs of different names.
C6_Witness ==
    /\ IsRef(objs[1]) /\ IsRef(objs[2])
    /\ objs[1].name = objs[2].name
    /\ objs[1].value # objs[2].value
    /\ PyCmp("<", objs[1], objs[2]) = "False"
    /\ PyCmp("<=", objs[1], objs[2]) = "True"
    /\ PyEq(objs[1], objs[2]) = "False"

IsSingleton(v) == v.cls \in SingletonClasses

\* C7: Marker, NA and Remove have one logical instance each: copy and
\* deepcopy return the very same instance, and any two values of one
\* singleton class are equal and hash identically.
C7_SingletonsOneInstance ==
    \A i, j \in Slots :
        /\ IsSingleton(objs[i])
              => /\ Is(Singleton__copy__(objs[i]), objs[i])
                 /\ Is(Singleton__deepcopy__(objs[i]), objs[i])
        /\ (IsSingleton(objs[i]) /\ objs[i].cls = objs[j].cls)
              => /\ PyEq(objs[i], objs[j]) = "True"
                 /\ PyHash(objs[i]) = PyHash(objs[j])

IsXStr(v) == v.cls = "XStr"

\* C8, as stated: two XStr are equal iff their encodings and their data are
\* equal, so two XStr of different encodings are never equal.
C8_XStrStructuralEquality ==
    \A i, j \in Slots :
        (IsXStr(objs[i]) /\ IsXStr(objs[j]))
        => (PyEq(objs[i], objs[j]) = "True")
               <=> (/\ objs[i].encoding = objs[j].encoding
                    /\ objs[i].data = objs[j].data)

\* The content of the data of an XStr: its bytes, or its text.
DataContent(d) == IF IsBytesLike(d) THEN <<"bytes", d.b>> ELSE <<"text", d.s>>

\* C8, amended: two XStr are equal iff their data are equal, bytes with
\* bytes (hex and b64) or text with text (any other encoding); the
\* encodings are not compared, and != is the negation of ==.
C8_XStrEqualityByData ==
    \A i, j \in Slots :
        (IsXStr(objs[i]) /\ IsXStr(objs[j]))
        => /\ PyEq(objs[i], objs[j]) \in {"True", "False"}
           /\ (PyEq(objs[i], objs[j]) = "True")
                  <=> DataContent(objs[i].data) = DataContent(objs[j].data)
           /\ PyNe(objs[i], objs[j]) = PyBool(PyEq(objs[i], objs[j]) = "False")

\* A hex XStr and a b64 XStr of the same bytes, which are equal.
C8_Witness ==
    /\ IsXStr(objs[1]) /\ IsXStr(objs[2])
    /\ objs[1].encoding = "hex" /\ objs[2].encoding = "b64"
    /\ objs[1].data.b = <<222>> /\ objs[2].data.b = <<222>>
    /\ PyEq(objs[1], objs[2]) = "True"

\* C9: an XStr built with hex or b64 from a valid encoded text is equal to
\* the XStr built again from its string form, the b64 string form holds no
\* newline, and for any other encoding the string form is the text the XStr
\* was built from.
C9_XStrRoundTrip ==
    (call.fn = "XStr" /\ IsValue(call.out))
        => LET x == call.out
               text == XStr_data_to_string(x)
           IN  /\ text.cls = "str"
               /\ x.encoding \in {"hex", "b64"}
                      => /\ IsValue(XStr__init__(x.encoding, text.s))
                         /\ PyEq(XStr__init__(x.encoding, text.s), x) = "True"
                         /\ PyEq(x, XStr__init__(x.encoding, text.s)) = "True"
               /\ x.encoding = "b64" => "\n" \notin Range(text.s)
               /\ x.encoding \notin {"hex", "b64"} => text.s = call.args[2]

\* A b64 XStr whose string form is not the text it was built from, and is
\* not empty.
C9_Witness ==
    /\ call.fn = "XStr"
    /\ IsValue(call.out)
    /\ call.out.encoding = "b64"
    /\ Len(call.out.data.b) = 2
    /\ XStr_data_to_string(call.out).s # call.args[2]

\* The text of a cell that starts with '@': the name, up to the first
\* space, and the display value after it (None without a space).
CellRefName(cell) ==
    IF \E k \in 2..Len(cell) : cell[k] = " "
    THEN SubSeq(cell, 2, (CHOOSE k \in 2..Len(cell) :
                              cell[k] = " " /\ \A j \in 2..(k - 1) : cell[j] # " ") - 1)
    ELSE SubSeq(cell, 2, Len(cell))

CellRefValue(cell) ==
    IF \E k \in 2..Len(cell) : cell[k] = " "
    THEN Str(SubSeq(cell, Len(CellRefName(cell)) + 3, Len(cell)))
    ELSE PyNone

CallRecords == csv_reader(call.args[1])

IsGrid(v) == v.cls = "Grid"

\* C11: in every grid parse_grid returns, the columns are the header names
\* in header order, there is one row per record after the header, in order,
\* every key of a row is a header name, and a row has a key for a column
\* exactly when the record has a cell for it that is neither empty nor Null
\* (the value of the key is then what the cell parses to).
C11_GridShape ==
    (call.fn = "parse_grid" /\ IsGrid(call.out))
        => LET records == CallRecords
               headers == Head(records)
               grid == call.out
           IN  /\ grid.columns = headers
               /\ Len(grid.rows) = Len(records) - 1
               /\ \A r \in 1..Len(grid.rows) :
                     LET row == grid.rows[r].items
                         record == records[r + 1]
                     IN  /\ DOMAIN row \subseteq Range(headers)
                         /\ \A idx \in 1..Len(headers) :
                               /\ headers[idx] \in DOMAIN row
                                     <=> /\ idx <= Len(record)
                                         /\ record[idx] # <<>>
                                         /\ parse_scalar(record[idx]) # PyNone
                               /\ headers[idx] \in DOMAIN row
                                     => row[headers[idx]] = parse_scalar(record[idx])

\* A grid of one column and two rows, the first without a key (its cell is
\* Null) and the second with the key.
C11_Witness ==
    /\ call.fn = "parse_grid"
    /\ call.args[1] = <<"a", "\n", "N", "\n", "a">>
    /\ IsGrid(call.out)
    /\ call.out.columns = <<<<"a">>>>
    /\ Len(call.out.rows) = 2
    /\ DOMAIN call.out.rows[1].items = {}
    /\ call.out.rows[2].items[<<"a">>] = Str(<<"a">>)

\* The header names are distinct and every cell after the header parses to
\* a value: nothing but the shape of the records can make parse_grid fail.
CellsParse(records) ==
    /\ IsValue(Grid(Head(records)))
    /\ \A r \in 2..Len(records) :
          \A idx \in 1..Len(records[r]) : IsValue(parse_scalar(records[r][idx]))

\* C12: when a record has more cells than there are headers, parse_grid
\* fails with a ZincParseException and returns no grid, whatever the extra
\* cells hold (here for the texts whose cells all parse).
C12_ExtraCellsRejected ==
    (/\ call.fn = "parse_grid"
     /\ Len(CallRecords) >= 1
     /\ CellsParse(CallRecords)
     /\ \E r \in 2..Len(CallRecords) : Len(CallRecords[r]) > Len(CallRecords[1]))
        => call.out = Raised("ZincParseException")

\* C13: for every text, parse_grid returns a grid or fails with a
\* ZincParseException: no other exception leaves it.
C13_OnlyParseErrorEscapes ==
    call.fn = "parse_grid"
        => \/ IsGrid(call.out)
           \/ call.out = Raised("ZincParseException")

\* C14: a grid without metadata that is dumped to CSV and parsed again is
\* the grid that was dumped.
C14_CsvRoundTrip ==
    call.fn = "csv_round_trip" => call.out = call.args[1]

\* C17: the mode is on exactly when the last use_pint call that returned
\* was use_pint(True) (off initially); Quantity constructs a PintQuantity
\* when the mode is on and a BasicQuantity otherwise; a use_pint call that
\* raises ImportError (Pint is missing) leaves the mode as it was; and a
\* use_pint call leaves the quantities made before it as they are.
C17_PintToggle ==
    /\ [](MODE_PINT <=> lastUsePint = "True")
    /\ [][/\ \A i \in Slots :
                objs'[i] # objs[i]
                    => objs'[i].cls = IF lastUsePint = "True" THEN "PintQuantity"
                                      ELSE "BasicQuantity"
          /\ (call' # call /\ call'.fn = "use_pint")
                => /\ objs' = objs
                   /\ call'.out = Raised("ImportError")
                         => (MODE_PINT' = MODE_PINT /\ ~PINT_AVAILABLE /\ call'.args[1])
                   /\ call'.out # Raised("ImportError")
                         => MODE_PINT' = call'.args[1]]_vars

\* The mode is on, with a BasicQuantity made before the toggle and a
\* PintQuantity made after it.
C17_Witness ==
    /\ MODE_PINT
    /\ lastUsePint = "True"
    /\ objs[1] = Quantity(PyInt(1), Str(<<"a">>))
    /\ objs[2] = PintQuantity(PyInt(1), to_pint(Str(<<"a">>)))

Formats == <<MODE_CSV, MODE_ZINC, MODE_JSON>>

\* The entries of a header that are mime types and accept the format.
Accepting(accept, format) ==
    {k \in 1..Len(accept) :
        /\ accept[k].mime_type # InvalidMimeType
        /\ matches(accept[k], format)}

EntryWeight(entry) == IF entry.q = NoQ THEN 10 ELSE entry.q.tenths

\* The greatest weight with which a header accepts a format.
FormatWeight(accept, format) ==
    CHOOSE w \in {EntryWeight(accept[k]) : k \in Accepting(accept, format)} :
        \A k \in Accepting(accept, format) : EntryWeight(accept[k]) <= w

\* C15: _dump_response picks, among text/csv, text/zinc and
\* application/json, a format the Accept header accepts with the greatest
\* weight, csv before zinc before json when several have that weight,
\* whatever the order of the header; and it raises HttpError 406 when the
\* header accepts none of the three (here without a default format, and for
\* the headers whose q parameters are numbers).
C15_FormatPreference ==
    (/\ call.fn = "_dump_response"
     /\ call.args[2] = PyNone
     /\ \A k \in 1..Len(call.args[1]) : call.args[1][k].q # BadQ)
        => LET accept == call.args[1]
               accepted == {f \in 1..3 : Accepting(accept, Formats[f]) # {}}
               best == {f \in accepted :
                           \A g \in accepted :
                               FormatWeight(accept, Formats[g])
                                   <= FormatWeight(accept, Formats[f])}
           IN  IF accepted = {}
               THEN call.out = HttpError(406, "Accept not supported")
               ELSE /\ IsValue(call.out)
                    /\ call.out.items[1]
                           = Formats[CHOOSE f \in best : \A g \in best : f <= g]

--------------------------------------------------------------------------
(* The operation handlers.                                                 *)

\* The calls of the business operations of the provider.
BusinessCalls == SelectSeq(providerCalls, LAMBDA c : c.op # "get_tz")

\* C16: a handler invokes at most one business operation of the provider
\* per request, and once an exception is caught the error response is
\* built without any further call of the provider.
C16_NoRetry ==
    /\ [](Len(BusinessCalls) <= 1)
    /\ [][pc = "except" => providerCalls' = providerCalls]_vars

\* A point_write whose write failed in the provider: one call, and the
\* error response of the HttpError.
C16_Witness ==
    /\ pc = "done"
    /\ request.op = "point_write"
    /\ Len(providerCalls) = 1
    /\ providerCalls[1].op = "point_write_write"
    /\ result.cls = "<caught>"
    /\ response.cls = "HaystackHttpResponse"
    /\ response.status_code = 404

\* C18: a handler always ends with a HaystackHttpResponse; its status is
\* 200 OK exactly when no exception was raised, the code and the message
\* of the HttpError when one was raised (the 406 of an unsupported Accept
\* being rendered in Zinc), and 400 ERROR for any other exception.
C18_AlwaysResponds ==
    pc = "done" =>
        /\ response.cls = "HaystackHttpResponse"
        /\ (response.status_code = 200 /\ response.status = "OK")
              <=> result.cls # "<caught>"
        /\ result.cls = "<caught>" =>
              IF result.ex.exc = "HttpError"
              THEN /\ response.status_code = result.ex.error
                   /\ response.status = result.ex.msg
                   /\ result.ex = HttpError(406, "Accept not supported")
                         => response.headers.ContentType = MODE_ZINC
              ELSE response.status_code = 400 /\ response.status = "ERROR"

\* The metadata of the grid a response carries.
Metadata(resp, key) ==
    LET metadata == resp.body.grid.metadata
        i == CHOOSE i \in DOMAIN metadata : metadata[i].key = key
    IN  metadata[i].value

HasMetadata(resp, key) ==
    \E i \in DOMAIN resp.body.grid.metadata :
        resp.body.grid.metadata[i].key = key

\* C19: the grid of an error response carries the marker err, its errTrace
\* is empty unless the stage is dev, and outside dev the response is the
\* same whatever the traceback of the exception.
C19_NoTraceOutsideDev ==
    (pc = "done" /\ result.cls = "<caught>"
     /\ response.cls = "HaystackHttpResponse") =>
        /\ HasMetadata(response, "err")
        /\ Metadata(response, "err") = "MARKER"
        /\ HasMetadata(response, "errTrace")
        /\ request.stage # "dev" =>
              /\ Metadata(response, "errTrace") = ""
              /\ \A traceback \in Tracebacks :
                     manage_exception(request.headers, result.ex, traceback,
                                      request.stage) = response
        /\ request.stage = "dev" =>
              Metadata(response, "errTrace") = result.traceback

\* An exception of the provider handled in stage prod: the error response
\* has an empty errTrace.
C19_Witness ==
    /\ pc = "done"
    /\ request.stage = "prod"
    /\ result.cls = "<caught>"
    /\ result.ex = Raised("Exception")
    /\ result.traceback = "Traceback 2"
    /\ response.cls = "HaystackHttpResponse"
    /\ response.status_code = 400
    /\ Metadata(response, "errTrace") = ""

\* The place of a parameter of read in the call of provider.read.
ReadArg(key) ==
    CASE key = "limit" -> 1
      [] key = "select" -> 2
      [] key = "id" -> 3
      [] key = "filter" -> 4
      [] key = "version" -> 5

\* The value of a parameter of read that the body grid alone gives.
BodyValue(key) ==
    LET has(k) == request.body.kind = "grid" /\ k \in request.body.keys
    IN  CASE key = "id" -> IF has("id") THEN Val("body", "id") ELSE PyNone
          [] key = "filter" ->
                (IF request.body.kind # "grid" \/ has("id") THEN PyNone
                 ELSE IF has("filter") THEN Val("body", "filter")
                 ELSE Str(<<>>))
          [] key = "limit" ->
                (IF has("limit") /\ ~has("id") THEN Val("body", "limit")
                 ELSE PyInt(0))
          [] OTHER -> IF has(key) THEN Val("body", key) ELSE PyNone

ReadCalled ==
    /\ request.op = "read"
    /\ Len(providerCalls) = 1
    /\ providerCalls[1].op = "read"

C21_IdsExcludeFilter ==
    (ReadCalled /\ providerCalls[1].args[ReadArg("id")] # PyNone) =>
        /\ providerCalls[1].args[ReadArg("filter")] = PyNone
        /\ providerCalls[1].args[ReadArg("limit")] = PyInt(0)

\* The request of read holds an id or a filter, in its body grid or in its
\* query string.
IdOrFilterSupplied ==
    \/ request.args \cap {"id", "filter"} # {}
    \/ /\ request.body.kind = "grid"
       /\ request.body.keys \cap {"id", "filter"} # {}

\* C22: a read whose request holds neither an id nor a filter does not call
\* provider.read and ends with an error response of status 400;
\* provider.read is called only for a request that holds one of them.
C22_ReadRequiresIdOrFilter ==
    (request.op = "read" /\ pc = "done"
     /\ request.body.kind \in {"none", "grid"}) =>
        /\ ~IdOrFilterSupplied =>
              /\ providerCalls = <<>>
              /\ response.cls = "HaystackHttpResponse"
              /\ response.status_code = 400
        /\ providerCalls # <<>> => IdOrFilterSupplied

--------------------------------------------------------------------------
(* Quantities and plain numbers.                                           *)

\* C29: a Quantity compared with a plain number gives, for each of the six
\* operators and in either order, what its value compared with the number
\* gives, whatever its unit; so two Quantities of the same value (a number
\* equal to itself) and of different units both equal that number, while
\* comparing them with each other does not give true.
C29_NumberComparedByValue ==
    \A i, j \in Slots :
        /\ (IsQuantity(objs[i]) /\ IsNumber(objs[j])) =>
              \A op \in CmpOps :
                  /\ PyCmp(op, objs[i], objs[j])
                        = NumCmp(op, objs[i].value, objs[j])
                  /\ PyCmp(op, objs[j], objs[i])
                        = NumCmp(op, objs[j], objs[i].value)
        /\ (/\ IsQuantity(objs[i]) /\ IsQuantity(objs[j])
            /\ objs[i].value = objs[j].value
            /\ objs[i].value.cls = "int"
            /\ objs[i].unit # objs[j].unit) =>
              /\ PyEq(objs[i], objs[i].value) = "True"
              /\ PyEq(objs[j], objs[i].value) = "True"
              /\ PyEq(objs[i], objs[j]) # "True"

\* Quantity(1, 'a') and the number 1 equal each other.
C29_Witness ==
    /\ objs[1] = Quantity(PyInt(1), Str(<<"a">>))
    /\ objs[2] = PyInt(1)
    /\ PyEq(objs[1], PyInt(1)) = "True"
    /\ PyEq(PyInt(1), objs[1]) = "True"

--------------------------------------------------------------------------
(* The factory quantity of hszinc.                                         *)

\* The class of the quantities made under the current mode.
SelectedClass == IF MODE_PINT THEN "PintQuantity" ELSE "BasicQuantity"

\* C27: quantity(value, unit) of a number, zero included, is a quantity of
\* the class MODE_PINT selects with that value and unit; of a Quantity it is
\* a quantity of that class with the same value; ValueError is raised only
\* for an argument that is neither.
C27_QuantityFactory ==
    call.fn = "quantity" =>
        LET value == call.args[1]
            unit == call.args[2]
        IN  /\ IsNumber(value) =>
                  /\ call.out.cls = SelectedClass
                  /\ call.out.value = value
                  /\ call.out.unit = IF MODE_PINT THEN to_pint(unit) ELSE unit
            /\ value.cls \in {"BasicQuantity", "PintQuantity"} =>
                  /\ call.out.cls = SelectedClass
                  /\ call.out.value = value.value
            /\ call.out = Raised("ValueError") =>
                  ~IsNumber(value)
                  /\ value.cls \notin {"BasicQuantity", "PintQuantity"}

--------------------------------------------------------------------------
(* The SQLite provider.                                                    *)

\* C28: _exec_sql_filter with no filter or an empty one executes the one
\* statement SELECT_ENTITY with as many parameters as it has placeholders,
\* and selects the rows of the customer valid at the version; with any
\* other filter it raises NotImplementedError and executes nothing.
C28_SelectEntityBindings ==
    call.fn = "_exec_sql_filter" =>
        LET rows == call.args[1]
            grid_filter == call.args[2]
            version == call.args[3]
            customer_id == call.args[4]
        IN  IF grid_filter \in {PyNone, Str(<<>>)}
            THEN /\ Len(call.executed) = 1
                 /\ call.executed[1].sql = SELECT_ENTITY
                 /\ Len(call.executed[1].parameters)
                       = Placeholders(call.executed[1].sql)
                 /\ call.out = PyNone
                 /\ call.cursor.rows =
                       {row \in rows :
                           /\ row.start_datetime <= version
                           /\ version <= row.end_datetime
                           /\ row.customer_id = customer_id}
            ELSE /\ call.out = Raised("NotImplementedError")
                 /\ call.executed = <<>>

--------------------------------------------------------------------------
(* The negotiation of the encoding.                                        *)

\* The weight of an entry: its q when it is a number, else 1.
EncodingWeight(entry) == IF entry.q.kind = "decimal" THEN entry.q.tenths ELSE 10

\* C30: get_best_encoding_match never raises; it returns the encoding type
\* of the entry of greatest weight, the first of them in the header, among
\* the entries whose encoding type is valid and available (an entry without
\* a valid q weighing 1), and None without such an entry.
C30_BestEncodingNeverRaises ==
    call.fn = "get_best_encoding_match" =>
        LET header == call.args[1]
            available == call.args[2]
            candidates == {i \in DOMAIN header :
                              /\ header[i].encoding_type # InvalidEncodingType
                              /\ header[i].encoding_type \in Range(available)}
            best == CHOOSE i \in candidates :
                        \A j \in candidates :
                            \/ EncodingWeight(header[j]) < EncodingWeight(header[i])
                            \/ /\ EncodingWeight(header[j]) = EncodingWeight(header[i])
                               /\ i <= j
        IN  /\ IsValue(call.out)
            /\ call.out = IF candidates = {} THEN PyNone
                          ELSE Str(header[best].encoding_type)

--------------------------------------------------------------------------
(* The handler of point_write.                                             *)

\* The request holds the key, in its query string or in its body grid.
Supplied(key) ==
    \/ key \in request.args
    \/ request.body.kind = "grid" /\ key \in request.body.keys

\* The value of the key in the request, the query string first.
RequestValue(key, default) ==
    IF key \in request.args THEN Val("args", key)
    ELSE IF request.body.kind = "grid" /\ key \in request.body.keys
    THEN Val("body", key)
    ELSE default

\* C23: point_write calls provider.point_write_write(id, level, val, who,
\* duration, version) exactly when the request holds val, with the level 17
\* by default and the who of the request; else it calls
\* provider.point_write_read(id, version); without an id it calls neither
\* and ends with an error response.
C23_WriteIffValue ==
    (request.op = "point_write" /\ pc = "done"
     /\ request.body.kind \in {"none", "grid"}) =>
        IF ~Supplied("id")
        THEN /\ providerCalls = <<>>
             /\ response.cls = "HaystackHttpResponse"
             /\ response.status_code # 200
        ELSE IF Supplied("val")
        THEN providerCalls =
                 <<ProviderCall("point_write_write",
                       <<RequestValue("id", PyNone),
                         RequestValue("level", PyInt(17)),
                         RequestValue("val", PyNone),
                         RequestValue("who", PyNone),
                         RequestValue("duration", PyNone),
                         RequestValue("version", PyNone)>>)>>
        ELSE providerCalls =
                 <<ProviderCall("point_write_read",
                       <<RequestValue("id", PyNone),
                         RequestValue("version", PyNone)>>)>>

--------------------------------------------------------------------------
(* The handler of watch_sub.                                               *)

\* The request holds a watchDis that is not empty, in its query string or
\* in its body grid.
WatchDisSupplied ==
    \/ "watchDis" \in request.args /\ "args" \notin request.empty
    \/ /\ request.body.kind = "grid"
       /\ "watchDis" \in request.body.keys
       /\ "body" \notin request.empty

\* The response is one of status 200.
IsOk(resp) == resp.cls = "HaystackHttpResponse" /\ resp.status_code = 200

\* The response is an error response.
IsError(resp) == resp.cls = "HaystackHttpResponse" /\ resp.status_code # 200

\* The guards of watch_sub: the provider is called only for a request with
\* a watchDis that is not empty, and the response is 200 only for a grid of
\* the provider that holds watchId and lease.
WatchSubGuards ==
    (request.op = "watch_sub" /\ pc = "done") =>
        /\ providerCalls # <<>> => WatchDisSupplied
        /\ IsOk(response) =>
              /\ result # PyNone
              /\ HasMetadataKey(result, "watchId")
              /\ HasMetadataKey(result, "lease")

\* C24: watch_sub calls the provider only for a request with a watchDis
\* that is not empty, and else ends with an error response without calling
\* it; its response is 200 only for a grid of the provider that is not None
\* and holds watchId and lease, and else is an error response.
C24_WatchSubGuards ==
    (request.op = "watch_sub" /\ pc = "done") =>
        /\ WatchSubGuards
        /\ ~WatchDisSupplied => providerCalls = <<>> /\ IsError(response)
        /\ ~IsOk(response) => IsError(response)

\* The calls of _parse_body so far: the request each got, and its outcome.
ParseIns == IF call.fn = "_parse_body" THEN call.ins ELSE <<>>

ParseOuts == IF call.fn = "_parse_body" THEN call.outs ELSE <<>>

\* The call decodes the body of the request.
Decodes(req) == req.is_base64 /\ req.headers.ContentEncoding # "<absent>"

\* The decoding of the call fails: the encoding is not gzip, or the body is
\* a text that is not the base64 of a gzip.
DecodeFails(req) ==
    Decodes(req) /\ (\/ req.headers.ContentEncoding # "gzip"
                     \/ req.body.coding = "plain" /\ req.body.text.kind # "empty")

\* The text of the body the call parses.
ParsedText(req) ==
    IF Decodes(req) /\ req.body.coding = "gzip" THEN req.body.text ELSE AsText(req.body)

\* The outcome of parsing a text in a format: the grid of a text of that
\* format, the empty grid of an empty text, else a ParseError.
ParsedIn(out, text, format) ==
    CASE text.kind = "empty" -> out = NoRowsGrid
      [] text.kind = "grid" /\ text.format = format ->
            out.cls = "Grid" /\ out.rows = 1 /\ out.keys = text.keys
      [] OTHER -> out = Raised("ZincParseException")

\* C25: _parse_body parses the body as CSV when the request has no
\* Content-Type and in the format of a supported Content-Type; for an
\* unsupported Content-Type it raises HttpError 406 for a body that is not
\* empty and returns the empty grid for an empty one; it never returns
\* None: it returns a Grid whenever it raises nothing.
C25_ParseBodyByContentType ==
    \A i \in DOMAIN ParseOuts :
        LET req == ParseIns[i]
            out == ParseOuts[i]
            content_type == req.headers.ContentType
            text == ParsedText(req)
        IN  ~DecodeFails(req) =>
                /\ content_type = PyNone => ParsedIn(out, text, MODE_CSV)
                /\ content_type \in {MODE_CSV, MODE_ZINC, MODE_JSON} =>
                      ParsedIn(out, text, content_type)
                /\ content_type = MimeType("text", "html") =>
                      IF text.kind # "empty"
                      THEN out.cls = "<raised>" /\ out.exc = "HttpError" /\ out.error = 406
                      ELSE out.cls = "Grid" /\ out.rows = 0 /\ out.version = "3.0"
                /\ out # PyNone
                /\ out.cls \in {"Grid", "<raised>"}

\* A request with a Content-Type of zinc and an empty body got the empty
\* grid, where parse returns None.
C25_Witness ==
    /\ Len(ParseOuts) >= 1
    /\ ParseIns[1].headers.ContentType = MODE_ZINC
    /\ ParseIns[1].body = Body("plain", EmptyText)
    /\ ParseOuts[1] = NoRowsGrid

\* C26: a request with is_base64 and Content-Encoding gzip whose first
\* call of _parse_body returned a grid is no longer marked as base64 after
\* it, and a second call with the same request object returns an equal
\* grid; a base64 request with another Content-Encoding is rejected.
C26_ParseBodyRepeatable ==
    /\ \A i \in DOMAIN ParseOuts :
          (ParseIns[i].is_base64 /\ ParseIns[i].headers.ContentEncoding = "deflate")
              => ParseOuts[i].cls = "<raised>"
    /\ (/\ Len(ParseOuts) >= 1
        /\ ParseIns[1].is_base64
        /\ ParseIns[1].headers.ContentEncoding = "gzip"
        /\ ParseOuts[1].cls = "Grid") =>
            /\ ~request.is_base64
            /\ Len(ParseOuts) >= 2 => ParseOuts[2] = ParseOuts[1]


==========================================================================
